---- MODULE Spec2Model ----
(***************************************************************************)
(* Inter-agent messaging and resilience layer of the AgentMesh:            *)
(*   lib/utils/communication.py  CircuitBreaker, GlobalA2AClient           *)
(*   lib/tools/delegation_tool.py  delegate_to_agent                        *)
(*   lib/utils/retry.py  FileLockRateLimiter                                *)
(* Time is the wall clock in whole seconds.  A coroutine is a frame with a  *)
(* program counter; one action runs a frame from one suspension point       *)
(* (await) to the next.                                                     *)
(***************************************************************************)
EXTENDS Integers, Sequences, FiniteSets, TLC

VARIABLES
    now,          \* time.time(), whole seconds
    circuits,     \* CircuitBreaker._circuits : agent -> tuple, or Absent
    lastOp,       \* observer: the last circuit breaker call, with its pre-state and result
    obs           \* observer: per agent, the record_failure calls since the last record_success,
                  \* the time of the last one, and the probes granted while HALF_OPEN
VARIABLES
    task,         \* the coroutine frames of the calls in progress in this process
    consulCache,  \* ConsulRegistry._cache : service name -> address, or NoUrl
    a2aClients,   \* GlobalA2AClient._a2a_clients (and _httpx_clients) : the cached "source->target" keys
    handshakes,   \* table handshakes of the durable store : cid -> row, or NoRow
    pending,      \* GlobalA2AClient._pending_handshakes : cid -> the frame owning the future, or NoTask
    updates,      \* the _update_handshake_record tasks created by resolve_handshake, not yet run
    nResolves,    \* resolve_handshake calls made so far
    resolvedCids, \* observer: the correlation ids resolve_handshake was called with
    dbUp,         \* the durable store answers
    nFlips        \* outages and recoveries of the store so far
VARIABLES
    deleg,        \* the frames of the delegate_to_agent calls in progress
    ledger        \* table delegation_logs of the durable store, in insertion (id) order
VARIABLES
    lockFile,     \* data/ratelimit.lock : absent, or present with its mtime
    stateFile,    \* data/ratelimit_state.json : its content
    proc          \* the agent processes calling FileLockRateLimiter.acquire
VARIABLES
    bcast         \* the frame of the broadcast call in progress
VARIABLES
    lookups       \* the frames of the ConsulRegistry.get_service_url calls in progress
VARIABLES
    runs,         \* the frames of the RateLimitRetryRunner.run_async calls in progress
    sessions      \* the runner's session service : session id -> the session, or none
VARIABLES
    closedClients, \* the cached "source->target" keys whose httpx client has been closed (aclose)
    failedSince    \* observer: the keys with a failed delivery attempt since the target's
                   \* address was last resolved

cbVars == <<circuits, lastOp, obs>>
msgVars == <<task, consulCache, a2aClients>>
hsVars == <<handshakes, pending, updates, nResolves, resolvedCids>>
dbVars == <<dbUp, nFlips>>
delegVars == <<deleg, ledger>>
rlVars == <<lockFile, stateFile, proc>>
bcastVars == <<bcast>>
lookupVars == <<lookups>>
clientVars == <<closedClients, failedSince>>
retryVars == <<runs, sessions>>
auxVars == <<lookupVars, clientVars, retryVars>>
extVars == <<delegVars, rlVars, bcastVars, auxVars>>
vars == <<now, cbVars, msgVars, hsVars, dbVars, extVars>>

----------------------------------------------------------------------------
(* Bounds of the model *)

MaxTime == 125        \* the clock stops here
MaxFailures == 5      \* cap on the failure counter in the breaker-only specification
MaxResolves == 1      \* resolve_handshake calls in one behaviour
MaxDbFlips == 1       \* outages and recoveries of the durable store in one behaviour
MaxStart == 1         \* a call starts no later than this
MaxTimeMsg == 9       \* the clock stops here in the messaging specifications
Later == 61           \* when a later call is made, in the specification of late resolutions
MaxTimeRL == 70       \* the clock stops here in the rate limiter's specification
MaxCalls == 2         \* acquire() calls of one process
SleptCap == 200       \* the seconds slept by one call are counted up to here
RequestsPerMinute == 1 \* the requests_per_minute the limiters are built with
MaxLookups == 2       \* get_service_url calls made one after the other in one frame

(* Program constants *)

CIRCUIT_FAILURE_THRESHOLD == 3
CIRCUIT_RESET_TIMEOUT == 60
CIRCUIT_HALF_OPEN_MAX == 1
DEFAULT_RETRIES == 3      \* send_message(retries=3)
POLL_INTERVAL == 1        \* asyncio.sleep(1) in _poll_handshake_result
DEDUP_WINDOW == 300       \* check_delegation_exists(max_age_seconds=300)
DELEGATION_TIMEOUT == 60  \* delegate_to_agent: send_request_with_handshake(timeout=60)
LOCK_TIMEOUT == 10        \* _acquire_lock(timeout=10.0)
LOCK_STALE == 5           \* a lock whose mtime is more than 5.0 s old is removed
LOCK_FAIL_SLEEP == 1      \* asyncio.sleep(1) when _acquire_lock gave up

Agents == {"medical-agent", "police-chief-agent"}
Sources == {"fire-chief-agent"}
Tasks == {"t1", "t2"}
Cids == {"c1", "c2"}
\* the target of the calls of the specifications that take one destination
HsTargets == {"medical-agent"}
\* timeout arguments of send_request_with_handshake tried, in seconds
Timeouts == {2}

----------------------------------------------------------------------------
(* CircuitBreaker *)

CLOSED == "closed"
OPEN == "open"
HALF_OPEN == "half_open"

Circuit(st, f, lf, ho) ==
    [state |-> st, failures |-> f, last_failure |-> lf, half_open_attempts |-> ho]

\* agent_name not in self._circuits
Absent == [state |-> "absent", failures |-> 0, last_failure |-> 0, half_open_attempts |-> 0]

get_state_circuits_at_timeout(c, a, t) ==
    IF c[a] = Absent THEN c
    ELSE IF c[a].state = OPEN /\ (t - c[a].last_failure) >= CIRCUIT_RESET_TIMEOUT
         THEN [c EXCEPT ![a] = Circuit(HALF_OPEN, c[a].failures, c[a].last_failure, 0)]
         ELSE c

\* get_state: the dictionary after the call (OPEN becomes HALF_OPEN once the reset timeout has passed)
get_state_circuits(c, a, t) ==
    IF c[a] = Absent THEN c
    ELSE IF c[a].state = OPEN /\ (t - c[a].last_failure) > CIRCUIT_RESET_TIMEOUT
         THEN [c EXCEPT ![a] = Circuit(HALF_OPEN, c[a].failures, c[a].last_failure, 0)]
         ELSE c

\* get_state: the value returned
get_state(c, a, t) ==
    IF c[a] = Absent THEN CLOSED ELSE get_state_circuits(c, a, t)[a].state

record_success_keep_count(c, a) ==
    [c EXCEPT ![a] = Circuit(CLOSED, c[a].failures, c[a].last_failure, 0)]

\* record_success: self._circuits[agent_name] = (self.CLOSED, 0, 0.0, 0)
record_success(c, a) == [c EXCEPT ![a] = Circuit(CLOSED, 0, 0, 0)]

record_failure_eager(c, a, t) ==
    IF c[a] = Absent THEN [c EXCEPT ![a] = Circuit(CLOSED, 1, t, 0)]
    ELSE [c EXCEPT ![a] = Circuit(OPEN, c[a].failures + 1, t, 0)]

record_failure(c, a, t) ==
    IF c[a] = Absent THEN [c EXCEPT ![a] = Circuit(CLOSED, 1, t, 0)]
    ELSE LET new_failures == c[a].failures + 1 IN
         IF c[a].state = HALF_OPEN
         THEN [c EXCEPT ![a] = Circuit(OPEN, new_failures, t, 0)]
         ELSE IF new_failures >= CIRCUIT_FAILURE_THRESHOLD
              THEN [c EXCEPT ![a] = Circuit(OPEN, new_failures, t, 0)]
              ELSE [c EXCEPT ![a] = Circuit(CLOSED, new_failures, t, 0)]

\* allow_request: the value returned
allow_request(c, a, t) ==
    LET state == get_state(c, a, t)
        c1 == get_state_circuits(c, a, t) IN
    IF state = CLOSED THEN TRUE
    ELSE IF state = OPEN THEN FALSE
    ELSE c1[a].half_open_attempts < CIRCUIT_HALF_OPEN_MAX

allow_request_circuits_no_count(c, a, t) == get_state_circuits(c, a, t)

\* allow_request: the dictionary after the call
allow_request_circuits(c, a, t) ==
    LET state == get_state(c, a, t)
        c1 == get_state_circuits(c, a, t) IN
    IF state = HALF_OPEN /\ c1[a].half_open_attempts < CIRCUIT_HALF_OPEN_MAX
    THEN [c1 EXCEPT ![a] = Circuit(HALF_OPEN, c1[a].failures, c1[a].last_failure,
                                   c1[a].half_open_attempts + 1)]
    ELSE c1

----------------------------------------------------------------------------
(* Observer of the breaker: what the last call was, on which destination,   *)
(* the dictionary entry before it, and what it returned.                    *)

NoOp == [op |-> "none", agent |-> "none", pre |-> Absent, ret |-> FALSE]
Op(o, a, r) == [op |-> o, agent |-> a, pre |-> circuits[a], ret |-> r]

NoObs == [consec |-> 0, lastFail |-> 0, granted |-> 0]
obs_failure(o, a, t) == [o EXCEPT ![a] = [consec |-> o[a].consec + 1, lastFail |-> t, granted |-> 0]]
obs_success(o, a) == [o EXCEPT ![a] = [consec |-> 0, lastFail |-> o[a].lastFail, granted |-> 0]]
\* c is the dictionary before the allow_request call
obs_allow(o, c, a, t) ==
    IF get_state(c, a, t) = HALF_OPEN /\ allow_request(c, a, t)
    THEN [o EXCEPT ![a].granted = o[a].granted + 1]
    ELSE o

CBInit ==
    /\ circuits = [a \in Agents |-> Absent]
    /\ lastOp = NoOp
    /\ obs = [a \in Agents |-> NoObs]

----------------------------------------------------------------------------
(* Result payloads and their JSON encoding.  "empty" is {} (falsy in       *)
(* Python); "tuple" is a dict holding a tuple, which json.dumps writes as  *)
(* a list, so that json.loads gives back "list".                            *)

NoValue == "none"
Payloads == {"empty", "ok", "tuple"}

json_dumps(r) == IF r = "tuple" THEN [json |-> "list"] ELSE [json |-> r]
json_loads(j) == j.json
\* Python truth value of a payload (if result:)
Truthy(r) == r # NoValue /\ r # "empty"

----------------------------------------------------------------------------
(* Service resolver *)

NoUrl == "none"
\* what the registry answers to one query: nothing (or an error), or a first entry
RegistryAnswers == {NoUrl, "registry"}
static_mesh_map == Agents \cup Sources
\* the service names asked for: those of the static table, and one it does not hold
ServiceNames == static_mesh_map \cup {"unknown-agent"}

\* get_service_url after a cache miss: reg is what the registry gave (NoUrl: nothing),
\* then the static table
resolve_miss(name, reg) ==
    IF reg # NoUrl THEN reg
    ELSE IF name \in static_mesh_map THEN "static"
    ELSE NoUrl

get_service_url(cache, name, reg) ==
    IF cache[name] # NoUrl THEN cache[name]
    ELSE resolve_miss(name, reg)

\* ConsulRegistry._cache after get_service_url
get_service_url_cache(cache, name, reg) ==
    LET url == get_service_url(cache, name, reg) IN
    IF url # NoUrl THEN [cache EXCEPT ![name] = url] ELSE cache

invalidate_cache(cache, name) == [cache EXCEPT ![name] = NoUrl]

\* get_client: the resolver cache after the call (the registry is asked only for a new client)
get_client_cache(clients, cache, src, tgt, reg) ==
    IF <<src, tgt>> \in clients THEN cache ELSE get_service_url_cache(cache, tgt, reg)

\* What GET /v1/catalog/service/<name> gives: an exception (timeout, refused connection),
\* a status other than 200, or 200 with the list of the service's entries
RegistryReplies ==
    {[status |-> "exception", services |-> <<>>],
     [status |-> "500", services |-> <<>>],
     [status |-> "200", services |-> <<>>],
     [status |-> "200", services |-> <<"registry1">>],
     [status |-> "200", services |-> <<"registry1", "registry2">>],
     [status |-> "200", services |-> <<"registry2", "registry1">>]}
NoReply == [status |-> "none", services |-> <<>>]

consul_last_entry(reply) ==
    IF reply.status = "200" /\ reply.services # <<>>
    THEN reply.services[Len(reply.services)] ELSE NoUrl

\* the address get_service_url makes of the reply: svc = services[0], or nothing
consul_first_entry(reply) ==
    IF reply.status = "200" /\ reply.services # <<>> THEN reply.services[1] ELSE NoUrl

----------------------------------------------------------------------------
(* RateLimitRetryRunner *)

MaxRetriesTried == 2     \* the largest max_retries a runner is built with

Runs == {"r1", "r2"}

\* A session id is its text cut into the caller's part and the suffixes appended to it.
\* The callers pass the context id of the request, which is any text.
CallerSessions == {<<"ctx">>, <<"ctx", "_retry_", 1>>}

attempt_session_id_same(session_id, attempt) == session_id
\* session_id if attempt == 0 else f"{session_id}_retry_{attempt}"
attempt_session_id(session_id, attempt) ==
    IF attempt = 0 THEN session_id ELSE session_id \o <<"_retry_", attempt>>

SessionIds == {attempt_session_id(s, a) : s \in CallerSessions, a \in 0..MaxRetriesTried}

\* An exception is the set of the indicators its text holds
RATE_LIMIT_INDICATORS == {"429", "TooManyRequests", "RESOURCE_EXHAUSTED", "rate limit", "quota"}
NoError == [markers |-> {"none"}]
RunErrors == {[markers |-> {"429", "RESOURCE_EXHAUSTED"}], [markers |-> {}]}

is_rate_limit_error(e) == e.markers \cap RATE_LIMIT_INDICATORS # {}

\* a session of the session service; received is an observer: how many times the
\* wrapped runner added the new message of each run_async call to it
NoSession == [exists |-> FALSE, received |-> [r \in Runs |-> 0]]

IdleRun ==
    [pc |-> "idle", session_id |-> <<>>, max_retries |-> 0, attempt |-> 0,
     outcome |-> "none",
     \* observers
     used |-> <<>>,       \* the session ids of the runner.run_async calls made, in order
     errors |-> <<>>]     \* how each of them ended

RetryIdle ==
    /\ runs = [r \in Runs |-> IdleRun]
    /\ sessions = [s \in SessionIds |-> NoSession]

RetryFrame == <<now, cbVars, msgVars, hsVars, dbVars, delegVars, rlVars, bcastVars, lookupVars, clientVars>>

\* run_async(user_id, session_id, new_message) is called; the executor has created the
\* session of the first attempt
RunAsync(r, session_id, max_retries) ==
    /\ runs[r].pc = "idle"
    /\ r = "r2" => runs["r1"].pc # "idle"
    /\ sessions' = [sessions EXCEPT ![session_id].exists = TRUE]
    /\ runs' = [runs EXCEPT ![r] = [@ EXCEPT !.pc = "r_run", !.session_id = session_id,
                                            !.max_retries = max_retries, !.attempt = 0]]
    /\ UNCHANGED RetryFrame

\* if attempt > 0: session_service.create_session(session_id=attempt_session_id), whose
\* failure is logged only
CreateRetrySession(r, ok) ==
    LET f == runs[r]
        sid == attempt_session_id(f.session_id, f.attempt) IN
    /\ f.pc = "r_create"
    /\ sessions' = IF ok THEN [sessions EXCEPT ![sid].exists = TRUE] ELSE sessions
    /\ runs' = [runs EXCEPT ![r].pc = "r_run"]
    /\ UNCHANGED RetryFrame

\* One attempt: runner.run_async(session_id=attempt_session_id, new_message) iterated to
\* its end or to the exception e, and the except clause.  added: the runner had added the
\* message to the session before it failed.  A session that does not exist is an error
\* of the runner that is no rate-limit error.
RunnerAttempt(r, e, added) ==
    LET f == runs[r]
        sid == attempt_session_id(f.session_id, f.attempt)
        found == sessions[sid].exists
        err == IF found THEN e ELSE [markers |-> {}]
        g == [f EXCEPT !.used = Append(@, sid), !.errors = Append(@, err)] IN
    /\ f.pc = "r_run"
    /\ e = NoError => added
    /\ sessions' = IF found /\ added
                   THEN [sessions EXCEPT ![sid].received[r] = @ + 1]
                   ELSE sessions
    /\ runs' = [runs EXCEPT ![r] =
                   IF err = NoError THEN [g EXCEPT !.pc = "done", !.outcome = "return"]
                   ELSE IF ~is_rate_limit_error(err) THEN [g EXCEPT !.pc = "done", !.outcome = "raise"]
                   ELSE IF f.attempt >= f.max_retries THEN [g EXCEPT !.pc = "done", !.outcome = "raise"]
                   ELSE [g EXCEPT !.pc = "r_sleep"]]
    /\ UNCHANGED RetryFrame

\* await asyncio.sleep(total_delay), then the next pass of the for loop
RetrySleep(r) ==
    /\ runs[r].pc = "r_sleep"
    /\ runs' = [runs EXCEPT ![r].pc = "r_create", ![r].attempt = @ + 1]
    /\ UNCHANGED <<sessions, RetryFrame>>

Lookups == {"l1", "l2"}

IdleLookup ==
    [pc |-> "idle", name |-> "none", ret |-> NoUrl,
     calls |-> 0,          \* get_service_url calls made in this frame
     \* observers
     hit |-> FALSE,        \* the name was in the cache when the call was made
     cached |-> NoUrl,     \* the address cached for the name when the call was made
     queries |-> 0,        \* registry queries of the call
     reply |-> NoReply,    \* what the registry replied
     stored |-> NoUrl]     \* the address cached for the name when the call returned

LookupIdle == lookups = [l \in Lookups |-> IdleLookup]
ClientsIdle == closedClients = {} /\ failedSince = {}
AuxIdle == LookupIdle /\ ClientsIdle /\ RetryIdle

\* get_service_url(service_name) up to its await: the cache check
GetServiceUrl(l, name) ==
    LET f == lookups[l]
        g == [f EXCEPT !.name = name, !.calls = @ + 1, !.hit = consulCache[name] # NoUrl,
                       !.cached = consulCache[name], !.queries = 0, !.reply = NoReply,
                       !.ret = NoUrl, !.stored = NoUrl] IN
    /\ f.pc \in {"idle", "done"}
    /\ f.calls < MaxLookups
    /\ lookups' = [lookups EXCEPT ![l] =
                      IF consulCache[name] # NoUrl
                      THEN [g EXCEPT !.pc = "done", !.ret = consulCache[name],
                                     !.stored = consulCache[name]]
                      ELSE [g EXCEPT !.pc = "query"]]
    /\ UNCHANGED <<now, cbVars, msgVars, hsVars, dbVars, delegVars, rlVars, bcastVars, clientVars, retryVars>>

\* the registry has replied: the first entry, the static fallback, the cache, the return
ConsulReplies(l, reply) ==
    LET f == lookups[l]
        url == resolve_miss(f.name, consul_first_entry(reply))
        cache1 == IF url # NoUrl THEN [consulCache EXCEPT ![f.name] = url] ELSE consulCache IN
    /\ f.pc = "query"
    /\ consulCache' = cache1
    /\ lookups' = [lookups EXCEPT ![l] =
                      [f EXCEPT !.pc = "done", !.ret = url, !.queries = @ + 1,
                                !.reply = reply, !.stored = cache1[f.name]]]
    /\ UNCHANGED <<now, cbVars, task, a2aClients, hsVars, dbVars, delegVars, rlVars, bcastVars,
                   clientVars, retryVars>>

\* invalidate_cache(service_name), as send_message calls it after a failed delivery
InvalidateCache(name) ==
    /\ consulCache[name] # NoUrl
    /\ consulCache' = invalidate_cache(consulCache, name)
    /\ UNCHANGED <<now, cbVars, task, a2aClients, hsVars, dbVars, extVars>>

----------------------------------------------------------------------------
(* The durable store *)

NoRow == [status |-> "none", result |-> NoValue]
NoTask == "none"

\* A statement succeeds: _get_db_pool gives a pool (the cached one, or a new one, which
\* needs the store) and the statement raises nothing.  Without a pool the callers return
\* what their except branches return, so the cached pool needs no variable of its own.
DbOk == dbUp

----------------------------------------------------------------------------
(* Coroutine frames *)

NoSnap == [pre |-> Absent, circuit |-> Absent, row |-> NoRow, waiter |-> NoTask, store |-> FALSE]
Snap(f, c, h, p) ==
    [pre |-> circuits[f.target], circuit |-> c[f.target],
     row |-> IF f.cid \in Cids THEN h[f.cid] ELSE NoRow,
     waiter |-> IF f.cid \in Cids THEN p[f.cid] ELSE NoTask,
     store |-> dbUp]

\* Frames and correlation ids are interchangeable names: the calls take the frames in
\* order, and the correlation ids, when they differ, likewise.
FrameFree(t) ==
    /\ task[t].pc = "idle"
    /\ t = "t2" => task["t1"].pc # "idle"
CidFree(cid) == cid = "c2" => \E t \in Tasks : task[t].cid = "c1"

IdleFrame ==
    [kind |-> "none", pc |-> "idle", source |-> "none", target |-> "none", cid |-> "none",
     retries |-> 0, attempt |-> 0, wake |-> 0,
     timeout |-> 0, start_time |-> 0, db_available |-> FALSE, future |-> NoValue,
     outcome |-> "none", value |-> NoValue,
     \* observers
     attempts |-> 0,      \* transport attempts made
     failures |-> 0,      \* record_failure calls made by this call
     successes |-> 0,     \* record_success calls made by this call
     resolved |-> {},     \* payloads resolved for its cid while it was waiting, before its timeout
     written |-> {},      \* payloads written COMPLETED to its row while it was waiting, likewise
     ended |-> 0,         \* when it returned or raised
     snap |-> NoSnap,     \* what it left behind when it returned or raised
     closed_client |-> FALSE,  \* the client of its transmission in progress was closed when it began
     stale |-> FALSE,          \* it began a transmission on a pair in failedSince
     uninvalidated |-> FALSE,  \* the handling of one of its failed attempts ended with the cache
                               \* entry of the target or the client of the pair in place
     begun |-> <<>>,           \* when each of its passes of the retry loop began
     handled |-> <<>>,         \* when the handling of each of its failed attempts ended
     sleeps |-> <<>>]          \* the backoff sleeps it has begun, in seconds

\* The frame f ends; c, h, p are the breaker dictionary, the handshakes table and the
\* waiter map as its last step leaves them.
End(f, how, v, c, h, p) ==
    [f EXCEPT !.pc = "done", !.outcome = how, !.value = v, !.ended = now,
              !.snap = Snap(f, c, h, p)]
Return(f, v, c, h, p) == End(f, "return", v, c, h, p)
Raise(f, e, c, h, p) == End(f, "raise", e, c, h, p)

\* send_request_with_handshake after send_message has returned: wait for the resolution
HsWait(f) ==
    IF f.db_available
    THEN [f EXCEPT !.pc = "h_poll", !.start_time = now, !.wake = now]
    ELSE [f EXCEPT !.pc = "h_future", !.start_time = now, !.wake = now + f.timeout]

\* the frame is waiting for its resolution and its timeout has not elapsed
Waiting(f) == f.pc \in {"h_poll", "h_future"} /\ now - f.start_time < f.timeout

\* the frame's request has been transmitted, and the frame has neither ended nor reached
\* its timeout
Transmitted(f) ==
    /\ f.kind = "handshake"
    /\ f.attempts >= 1
    /\ f.pc = "s_attempt" \/ Waiting(f)

MsgInit ==
    /\ task = [t \in Tasks |-> IdleFrame]
    /\ consulCache = [a \in ServiceNames |-> NoUrl]
    /\ a2aClients = {}

HsInit ==
    /\ handshakes = [c \in Cids |-> NoRow]
    /\ pending = [c \in Cids |-> NoTask]
    /\ updates = {}
    /\ nResolves = 0
    /\ resolvedCids = {}

DbInit ==
    /\ dbUp \in BOOLEAN
    /\ nFlips = 0

----------------------------------------------------------------------------
(* send_message *)

\* exponential backoff: 1s, 2s, 4s, 8s... capped at 32s
Backoff(attempt) == IF 2 ^ attempt < 32 THEN 2 ^ attempt ELSE 32

LastAttempt_one_less(f) == f.attempt + 1 >= f.retries

\* for attempt in range(retries + 1): ... if attempt == retries: raise e
LastAttempt(f) == f.attempt = f.retries

\* a send_message call starts early, or once a reset timeout of the breaker has passed
CanStart == now <= MaxStart \/ now > CIRCUIT_RESET_TIMEOUT

StartSend_no_gate(t, src, tgt, n) ==
    /\ FrameFree(t)
    /\ CanStart
    /\ LET c1 == allow_request_circuits(circuits, tgt, now)
           f == [IdleFrame EXCEPT !.kind = "send", !.source = src, !.target = tgt,
                                  !.retries = n, !.wake = now] IN
       /\ circuits' = c1
       /\ obs' = obs_allow(obs, circuits, tgt, now)
       /\ task' = [task EXCEPT ![t] = [f EXCEPT !.pc = "s_attempt"]]
    /\ UNCHANGED <<now, lastOp, consulCache, a2aClients, hsVars, dbVars, extVars>>

\* send_message up to its first await: the circuit breaker gate
StartSend(t, src, tgt, n) ==
    /\ FrameFree(t)
    /\ CanStart
    /\ LET ok == allow_request(circuits, tgt, now)
           c1 == allow_request_circuits(circuits, tgt, now)
           f == [IdleFrame EXCEPT !.kind = "send", !.source = src, !.target = tgt,
                                  !.retries = n, !.wake = now] IN
       /\ circuits' = c1
       /\ obs' = obs_allow(obs, circuits, tgt, now)
       /\ task' = [task EXCEPT ![t] = IF ok THEN [f EXCEPT !.pc = "s_attempt"]
                                      ELSE Return(f, "circuit_open", c1, handshakes, pending)]
    /\ UNCHANGED <<now, lastOp, consulCache, a2aClients, hsVars, dbVars, extVars>>

\* One pass of the retry loop taken as one step: get_client, client.send_message, and what
\* follows the answer, for the specifications in which what other frames do between the
\* awaits of a pass has no part (the passes are taken step by step further down).
\* delivered: the transport delivered; reg: the registry's answer if asked.
SendAttempt(t, delivered, reg) ==
    /\ task[t].pc = "s_attempt"
    /\ now >= task[t].wake
    /\ LET f == task[t]
           src == f.source
           tgt == f.target
           cache1 == get_client_cache(a2aClients, consulCache, src, tgt, reg)
           f1 == [f EXCEPT !.attempts = @ + 1]
           ok1 == record_success(circuits, tgt)
           ko1 == record_failure(circuits, tgt, now)
           ko2 == record_failure(ko1, tgt, now)
           popped == [pending EXCEPT ![f.cid] = NoTask] IN
       IF delivered
       THEN /\ consulCache' = cache1
            /\ a2aClients' = a2aClients \cup {<<src, tgt>>}
            /\ circuits' = ok1
            /\ obs' = obs_success(obs, tgt)
            /\ task' = [task EXCEPT ![t] =
                           LET f2 == [f1 EXCEPT !.successes = @ + 1] IN
                           IF f.kind = "send"
                           THEN Return(f2, "delivered", ok1, handshakes, pending)
                           ELSE HsWait(f2)]
            /\ UNCHANGED pending
       ELSE /\ consulCache' = invalidate_cache(cache1, tgt)
            /\ a2aClients' = a2aClients \ {<<src, tgt>>}
            /\ IF ~LastAttempt(f)
               THEN /\ circuits' = ko1
                    /\ obs' = obs_failure(obs, tgt, now)
                    /\ task' = [task EXCEPT ![t] =
                                   [f1 EXCEPT !.failures = @ + 1, !.attempt = @ + 1,
                                              !.wake = now + Backoff(f.attempt)]]
                    /\ UNCHANGED pending
               ELSE IF f.kind = "send"
               THEN /\ circuits' = ko1
                    /\ obs' = obs_failure(obs, tgt, now)
                    /\ task' = [task EXCEPT ![t] =
                                   Raise([f1 EXCEPT !.failures = @ + 1], "transport",
                                         ko1, handshakes, pending)]
                    /\ UNCHANGED pending
               \* send_request_with_handshake: except Exception as e
               ELSE /\ circuits' = ko2
                    /\ obs' = obs_failure(obs_failure(obs, tgt, now), tgt, now)
                    /\ pending' = popped
                    /\ task' = [task EXCEPT ![t] =
                                   Raise([f1 EXCEPT !.failures = @ + 2], "transport",
                                         ko2, handshakes, popped)]
    /\ UNCHANGED <<now, lastOp, handshakes, updates, nResolves, resolvedCids, dbVars, extVars>>

----------------------------------------------------------------------------
(* The retry loop of send_message step by step: every await of a pass is a  *)
(* suspension point at which the other frames of the process can run.       *)

ClientKey(f) == <<f.source, f.target>>

\* the keys of the pairs with target tgt
KeysTo(tgt) == {k \in (Sources \cup Agents) \X (Sources \cup Agents) : k[2] = tgt}

\* the transmission begins: request built, client.send_message(request) awaited
BeginTransmit(f) ==
    [f EXCEPT !.pc = "s_send", !.attempts = @ + 1,
              !.closed_client = ClientKey(f) \in closedClients',
              !.stale = @ \/ ClientKey(f) \in failedSince']

\* get_client up to its await: the cached client, or get_service_url up to its await (the
\* cache check); the client is created and the transmission begun when the address is there
GetClient(t) ==
    LET f == [task[t] EXCEPT !.begun = Append(@, now)]
        key == ClientKey(f) IN
    /\ task[t].pc = "s_attempt"
    /\ task[t].kind = "send"
    /\ now >= task[t].wake
    /\ IF key \in a2aClients
       THEN /\ UNCHANGED <<a2aClients, closedClients, failedSince>>
            /\ task' = [task EXCEPT ![t] = BeginTransmit(f)]
       ELSE IF consulCache[f.target] # NoUrl
       THEN /\ a2aClients' = a2aClients \cup {key}
            /\ closedClients' = closedClients \ {key}
            /\ failedSince' = failedSince \ KeysTo(f.target)
            /\ task' = [task EXCEPT ![t] = BeginTransmit(f)]
       ELSE /\ UNCHANGED <<a2aClients, closedClients, failedSince>>
            /\ task' = [task EXCEPT ![t] = [f EXCEPT !.pc = "s_resolve"]]
    /\ UNCHANGED <<now, cbVars, consulCache, hsVars, dbVars, delegVars, rlVars, bcastVars,
                   lookupVars, retryVars>>

\* the registry has replied to the get_service_url of get_client: the address (the
\* localhost fallback when there is none), the new client, and the transmission begun
ClientResolved(t, reply) ==
    LET f == task[t]
        key == ClientKey(f)
        url == resolve_miss(f.target, consul_first_entry(reply)) IN
    /\ f.pc = "s_resolve"
    /\ consulCache' = IF url # NoUrl THEN [consulCache EXCEPT ![f.target] = url] ELSE consulCache
    /\ a2aClients' = a2aClients \cup {key}
    /\ closedClients' = closedClients \ {key}
    /\ failedSince' = failedSince \ KeysTo(f.target)
    /\ task' = [task EXCEPT ![t] = BeginTransmit(f)]
    /\ UNCHANGED <<now, cbVars, hsVars, dbVars, delegVars, rlVars, bcastVars, lookupVars, retryVars>>

\* The end of the except clause of a pass, from the del statements on; f is the frame and
\* c the breaker dictionary after record_failure.  A client_key that is no longer in
\* _httpx_clients makes the del raise KeyError, which leaves send_message.
FailureHandled(t, f, c) ==
    LET key == ClientKey(f)
        cache1 == invalidate_cache(consulCache, f.target)
        g == [f EXCEPT !.handled = Append(@, now),
                       !.uninvalidated = @ \/ cache1[f.target] # NoUrl
                                           \/ key \in a2aClients \ {key}] IN
    /\ a2aClients' = a2aClients \ {key}
    /\ closedClients' = closedClients \ {key}
    /\ consulCache' = cache1
    /\ task' = [task EXCEPT ![t] =
                   IF LastAttempt(f)
                   THEN Raise(g, "transport", c, handshakes, pending)
                   ELSE [g EXCEPT !.pc = "s_attempt", !.attempt = @ + 1,
                                  !.wake = now + Backoff(f.attempt),
                                  !.sleeps = Append(@, Backoff(f.attempt))]]

\* client.send_message is over.  delivered: it returned a response; otherwise it raised,
\* and the except clause runs up to its await of aclose(), or, when there is no client
\* under the key or aclose() does not suspend (yields false), to its end.
TransmitEnds(t, delivered, yields) ==
    LET f == task[t]
        key == ClientKey(f)
        ok1 == record_success(circuits, f.target)
        ko1 == record_failure(circuits, f.target, now)
        f1 == [f EXCEPT !.failures = @ + 1, !.closed_client = FALSE] IN
    /\ f.pc = "s_send"
    /\ f.closed_client => ~delivered
    /\ IF delivered
       THEN /\ ~yields
            /\ circuits' = ok1
            /\ obs' = obs_success(obs, f.target)
            /\ task' = [task EXCEPT ![t] =
                           Return([f EXCEPT !.successes = @ + 1], "delivered", ok1,
                                  handshakes, pending)]
            /\ UNCHANGED <<consulCache, a2aClients, closedClients, failedSince>>
       ELSE /\ circuits' = ko1
            /\ obs' = obs_failure(obs, f.target, now)
            /\ failedSince' = failedSince \cup {key}
            /\ IF key \in a2aClients /\ key \notin closedClients /\ yields
               THEN /\ closedClients' = closedClients \cup {key}
                    /\ task' = [task EXCEPT ![t] = [f1 EXCEPT !.pc = "s_close"]]
                    /\ UNCHANGED <<consulCache, a2aClients>>
               ELSE /\ ~yields
                    /\ FailureHandled(t, f1, ko1)
    /\ UNCHANGED <<now, lastOp, hsVars, dbVars, delegVars, rlVars, bcastVars, lookupVars, retryVars>>

\* aclose() is over: the rest of the except clause
ClientClosed(t) ==
    LET f == task[t]
        key == ClientKey(f) IN
    /\ f.pc = "s_close"
    /\ IF key \in a2aClients
       THEN FailureHandled(t, f, circuits)
       ELSE /\ task' = [task EXCEPT ![t] =
                           Raise([f EXCEPT !.handled = Append(@, now),
                                           !.uninvalidated = consulCache[f.target] # NoUrl],
                                 "KeyError", circuits, handshakes, pending)]
            /\ UNCHANGED <<consulCache, a2aClients, closedClients>>
    /\ UNCHANGED <<now, cbVars, failedSince, hsVars, dbVars, delegVars, rlVars, bcastVars,
                   lookupVars, retryVars>>

----------------------------------------------------------------------------
(* send_request_with_handshake *)

StartHandshake_no_gate(t, src, tgt, cid, timeout) ==
    /\ FrameFree(t)
    /\ CidFree(cid)
    /\ CanStart
    /\ LET c1 == allow_request_circuits(circuits, tgt, now)
           f == [IdleFrame EXCEPT !.kind = "handshake", !.source = src, !.target = tgt,
                                  !.cid = cid, !.timeout = timeout,
                                  !.retries = DEFAULT_RETRIES] IN
       /\ circuits' = c1
       /\ obs' = obs_allow(obs, circuits, tgt, now)
       /\ task' = [task EXCEPT ![t] = [f EXCEPT !.pc = "h_create"]]
    /\ UNCHANGED <<now, lastOp, consulCache, a2aClients, hsVars, dbVars, extVars>>

\* up to the first await: the circuit breaker gate
StartHandshake(t, src, tgt, cid, timeout) ==
    /\ FrameFree(t)
    /\ CidFree(cid)
    /\ CanStart
    /\ LET ok == allow_request(circuits, tgt, now)
           c1 == allow_request_circuits(circuits, tgt, now)
           f == [IdleFrame EXCEPT !.kind = "handshake", !.source = src, !.target = tgt,
                                  !.cid = cid, !.timeout = timeout,
                                  !.retries = DEFAULT_RETRIES] IN
       /\ circuits' = c1
       /\ obs' = obs_allow(obs, circuits, tgt, now)
       /\ task' = [task EXCEPT ![t] = IF ok THEN [f EXCEPT !.pc = "h_create"]
                                      ELSE Raise(f, "circuit_open", c1, handshakes, pending)]
    /\ UNCHANGED <<now, lastOp, consulCache, a2aClients, hsVars, dbVars, extVars>>

create_handshake_record_skipped(h, cid) == h

\* _create_handshake_record: INSERT INTO handshakes (cid, status) VALUES ($1, 'PENDING')
\* ON CONFLICT (cid) DO UPDATE SET status = 'PENDING', result = NULL
create_handshake_record(h, cid) ==
    IF DbOk THEN [h EXCEPT ![cid] = [status |-> "PENDING", result |-> NoValue]] ELSE h

\* _create_handshake_record, the future, and send_message up to its first await (its gate)
HsCreate(t) ==
    /\ task[t].pc = "h_create"
    /\ LET f == task[t]
           tgt == f.target
           allowed == allow_request(circuits, tgt, now)
           f1 == [f EXCEPT !.db_available = DbOk, !.future = "pending"] IN
       /\ handshakes' = create_handshake_record(handshakes, f.cid)
       /\ pending' = [pending EXCEPT ![f.cid] = t]
       /\ circuits' = allow_request_circuits(circuits, tgt, now)
       /\ obs' = obs_allow(obs, circuits, tgt, now)
       /\ task' = [task EXCEPT ![t] =
                      IF allowed THEN [f1 EXCEPT !.pc = "s_attempt", !.wake = now] ELSE HsWait(f1)]
    /\ UNCHANGED <<now, lastOp, consulCache, a2aClients, updates, nResolves, resolvedCids, dbVars, extVars>>

poll_timeout_cleanup_none(h, cid) == h

\* Timeout - cleanup: DELETE FROM handshakes WHERE cid = $1, any error swallowed
poll_timeout_cleanup(h, cid) == IF DbOk THEN [h EXCEPT ![cid] = NoRow] ELSE h

PollExpired_early(f) == now - f.start_time + 1 >= f.timeout

\* while (time.time() - start_time) < timeout
PollExpired(f) == ~(now - f.start_time < f.timeout)

\* One pass of the loop of _poll_handshake_result, or its timeout cleanup, and what
\* send_request_with_handshake does with the value returned.
HsPoll(t) ==
    /\ task[t].pc = "h_poll"
    /\ now >= task[t].wake
    /\ LET f == task[t]
           tgt == f.target
           row == handshakes[f.cid]
           deleted == [handshakes EXCEPT ![f.cid] = NoRow]
           popped == [pending EXCEPT ![f.cid] = NoTask]
           ok1 == record_success(circuits, tgt)
           ko1 == record_failure(circuits, tgt, now)
           f1 == [f EXCEPT !.failures = @ + 1] IN
       IF ~PollExpired(f)
       THEN IF DbOk /\ row.status = "COMPLETED"
            THEN LET result == json_loads(row.result) IN
                 /\ handshakes' = deleted
                 /\ pending' = popped
                 /\ IF Truthy(result)
                    THEN /\ circuits' = ok1
                         /\ obs' = obs_success(obs, tgt)
                         /\ task' = [task EXCEPT ![t] =
                                        Return([f EXCEPT !.successes = @ + 1], result,
                                               ok1, deleted, popped)]
                    \* if result: ... else: raise asyncio.TimeoutError()
                    ELSE /\ circuits' = ko1
                         /\ obs' = obs_failure(obs, tgt, now)
                         /\ task' = [task EXCEPT ![t] = Raise(f1, "timeout", ko1, deleted, popped)]
            ELSE /\ task' = [task EXCEPT ![t].wake = now + POLL_INTERVAL]
                 /\ UNCHANGED <<handshakes, pending, circuits, obs>>
       ELSE LET h1 == poll_timeout_cleanup(handshakes, f.cid) IN
            /\ handshakes' = h1
            /\ pending' = popped
            /\ circuits' = ko1
            /\ obs' = obs_failure(obs, tgt, now)
            /\ task' = [task EXCEPT ![t] = Raise(f1, "timeout", ko1, h1, popped)]
    /\ UNCHANGED <<now, lastOp, consulCache, a2aClients, updates, nResolves, resolvedCids, dbVars, extVars>>

\* asyncio.wait_for(future, timeout) when no durable record could be created
HsFuture(t) ==
    /\ task[t].pc = "h_future"
    /\ LET f == task[t]
           tgt == f.target
           popped == [pending EXCEPT ![f.cid] = NoTask]
           ok1 == record_success(circuits, tgt)
           ko1 == record_failure(circuits, tgt, now) IN
       \/ /\ f.future # "pending"
          /\ circuits' = ok1
          /\ obs' = obs_success(obs, tgt)
          /\ task' = [task EXCEPT ![t] =
                         Return([f EXCEPT !.successes = @ + 1], f.future, ok1, handshakes, pending)]
          /\ UNCHANGED pending
       \/ /\ f.future = "pending"
          /\ now >= f.wake
          /\ circuits' = ko1
          /\ obs' = obs_failure(obs, tgt, now)
          /\ pending' = popped
          /\ task' = [task EXCEPT ![t] =
                         Raise([f EXCEPT !.failures = @ + 1], "timeout", ko1, handshakes, popped)]
    /\ UNCHANGED <<now, lastOp, consulCache, a2aClients, handshakes, updates, nResolves, resolvedCids, dbVars, extVars>>

\* a request with correlation id cid whose record was stored has timed out, and its cleanup
\* has left neither a row nor a waiter for cid
RequesterGone(cid) ==
    \E t \in Tasks :
        LET f == task[t] IN
        /\ f.kind = "handshake" /\ f.cid = cid /\ f.db_available
        /\ f.pc = "done" /\ f.value = "timeout"
        /\ f.snap.row = NoRow /\ f.snap.waiter = NoTask

\* resolve_handshake(correlation_id, result); local: called in the requester's process
resolve_handshake(cid, r, local) ==
    \* without a waiter for cid in this process the call does the same in any process
    /\ local => pending[cid] # NoTask
    /\ CidFree(cid)
    /\ nResolves' = nResolves + 1
    /\ resolvedCids' = resolvedCids \cup {cid}
    /\ LET u == IF local THEN pending[cid] ELSE NoTask IN
       /\ pending' = IF u # NoTask THEN [pending EXCEPT ![cid] = NoTask] ELSE pending
       /\ task' = [t \in Tasks |->
                     LET f == task[t]
                         g == IF f.cid = cid /\ Waiting(f)
                              THEN [f EXCEPT !.resolved = @ \cup {r}]

                              ELSE f IN
                     IF t = u /\ f.future = "pending" THEN [g EXCEPT !.future = r] ELSE g]
    \* late is an observer: a requester of cid had timed out by the time of the call
    /\ updates' = updates \cup {[id |-> nResolves, cid |-> cid, result |-> r,
                                  late |-> RequesterGone(cid)]}
    /\ UNCHANGED <<now, cbVars, consulCache, a2aClients, handshakes, dbVars, extVars>>

\* a resolve_handshake call, while the model still counts resolutions
ResolveHandshake(cid, r, local) ==
    /\ nResolves < MaxResolves
    /\ resolve_handshake(cid, r, local)

\* UPDATE handshakes SET status = 'COMPLETED', result = $2 WHERE cid = $1, refusing a row
\* that is COMPLETED already
update_handshake_record_once(h, cid, result) ==
    IF DbOk /\ h[cid] # NoRow /\ h[cid].status = "PENDING"
    THEN [h EXCEPT ![cid] = [status |-> "COMPLETED", result |-> json_dumps(result)]]
    ELSE h
\* UPDATE handshakes SET status = 'COMPLETED', result = $2 WHERE cid = $1
update_handshake_record(h, cid, result) ==
    IF DbOk /\ h[cid] # NoRow
    THEN [h EXCEPT ![cid] = [status |-> "COMPLETED", result |-> json_dumps(result)]]
    ELSE h

\* _update_handshake_record, the task resolve_handshake created
UpdateHandshakeRecord(u) ==
    /\ u \in updates
    /\ updates' = updates \ {u}
    /\ handshakes' = update_handshake_record(handshakes, u.cid, u.result)
    /\ task' = [t \in Tasks |->
                  LET f == task[t] IN
                  IF DbOk /\ handshakes[u.cid] # NoRow /\ f.cid = u.cid /\ Waiting(f)
                  THEN [f EXCEPT !.written = @ \cup {u.result}] ELSE f]
    /\ UNCHANGED <<now, cbVars, consulCache, a2aClients, pending, nResolves, resolvedCids,
                   dbVars, extVars>>

----------------------------------------------------------------------------
(* delegate_to_agent and the delegation ledger *)

\* the tools built by create_delegation_tool that the model runs: (source, target) pairs
DelegationTools ==
    {<<"fire-chief-agent", "medical-agent">>, <<"police-chief-agent", "medical-agent">>}

\* failover_agents of delegate_to_agent: who acts as backup for whom
failover_agents ==
    [a \in {"medical-agent", "civic-alert-agent", "fire-chief-agent", "utility-agent",
            "police-chief-agent"} |->
        IF a \in {"medical-agent", "civic-alert-agent", "fire-chief-agent"}
        THEN "police-chief-agent" ELSE "fire-chief-agent"]

\* _normalize_name: name.replace("_", "-")
normalize_name(n) ==
    CASE n = "medical_agent" -> "medical-agent"
      [] n = "utility_agent" -> "utility-agent"
      [] OTHER -> n

\* A request text is what the two patterns of extract_incident_id find in it: the
\* identifier after an "Incident ID:" label and the first all-caps identifier with at
\* least two underscores, each possibly missing.
NoIncident == "none"
Requests ==
    {[label |-> "INC_A_1", caps |-> "ZONE_B_2"],
     [label |-> NoIncident, caps |-> "INC_A_1"],
     [label |-> NoIncident, caps |-> NoIncident]}

extract_incident_id(text) ==
    IF text.label # NoIncident THEN text.label
    ELSE IF text.caps # NoIncident THEN text.caps
    ELSE NoIncident

\* What send_request_with_handshake gives its caller: a result, or one of the exceptions
\* it raises.  type is the exception class as the except clauses of delegate_to_agent
\* test it, markers the substrings among "503", "connection", "timeout" that str(e)
\* holds.  The gate raises Exception("Circuit breaker OPEN for <target>"), the timeout
\* branch raises Exception("Agent <target> did not respond within <n>s"), and a transport
\* error is re-raised as it is, whatever its text; an asyncio.TimeoutError never leaves
\* send_request_with_handshake, which turns every one into the timeout Exception.
HandshakeOutcomes ==
    {[kind |-> "result", type |-> "none", markers |-> {}],
     [kind |-> "circuit_open", type |-> "Exception", markers |-> {}],
     [kind |-> "timeout", type |-> "Exception", markers |-> {}],
     [kind |-> "transport", type |-> "Exception", markers |-> {"connection"}],
     [kind |-> "transport", type |-> "Exception", markers |-> {}]}

NoOutcome == [kind |-> "none", type |-> "none", markers |-> {}]

\* except asyncio.TimeoutError
IsTimeoutError(e) == e.type = "asyncio.TimeoutError"

except_Exception_timeouts_only(e) == e.type = "asyncio.TimeoutError"

\* except Exception: asyncio.TimeoutError is a subclass of Exception
except_Exception(e) == e.type \in {"Exception", "asyncio.TimeoutError"}

is_connection_failure_any(e) == TRUE

\* "503" in error_str or "connection" in error_str.lower() or "timeout" in error_str.lower()
is_connection_failure(e) == e.markers \cap {"503", "connection", "timeout"} # {}

\* A row of delegation_logs.  updates is an observer: the UPDATE statements that hit it.
LogEntry(cid, src, tgt, inc, t) ==
    [correlation_id |-> cid, source_agent |-> src, target_agent |-> tgt,
     incident_id |-> inc, status |-> "PENDING", created_at |-> t, updates |-> 0]

\* observer: the entry is one for (incident, target), PENDING or COMPLETED, created
\* less than the dedup window ago
LiveEntry(row, incident, target, t) ==
    /\ row.incident_id = incident /\ row.target_agent = target
    /\ row.status \in {"PENDING", "COMPLETED"}
    /\ t - row.created_at < DEDUP_WINDOW

Qualifies_pending_only(row, incident, target, t) ==
    /\ row.incident_id = incident
    /\ row.target_agent = target
    /\ row.created_at > t - DEDUP_WINDOW
    /\ row.status = "PENDING"

\* the WHERE clause of check_delegation_exists
Qualifies(row, incident, target, t) ==
    /\ row.incident_id = incident
    /\ row.target_agent = target
    /\ row.created_at > t - DEDUP_WINDOW
    /\ row.status \in {"PENDING", "COMPLETED"}

\* the most recent rows for (incident, target), whatever their status and age
LatestQualifying_any(led, incident, target, t) ==
    LET q == {i \in DOMAIN led : led[i].incident_id = incident /\ led[i].target_agent = target} IN
    {i \in q : \A j \in q : led[j].created_at <= led[i].created_at}

\* the rows ORDER BY created_at DESC LIMIT 1 may return
LatestQualifying(led, incident, target, t) ==
    LET q == {i \in DOMAIN led : Qualifies(led[i], incident, target, t)} IN
    {i \in q : \A j \in q : led[j].created_at <= led[i].created_at}

\* a lookup answered from the rows whether or not the store can be reached
check_delegation_exists_closed(led, incident, target, t) ==
    IF incident = NoIncident THEN {}
    ELSE LatestQualifying(led, incident, normalize_name(target), t)

\* check_delegation_exists: the rows it may return; none means it returns None
check_delegation_exists(led, incident, target, t) ==
    IF incident = NoIncident \/ ~DbOk THEN {}
    ELSE LatestQualifying(led, incident, normalize_name(target), t)

\* create_delegation_log: INSERT ... VALUES (..., 'PENDING'); a failure is logged only
create_delegation_log(led, cid, src, tgt, inc, t) ==
    IF DbOk THEN Append(led, LogEntry(cid, src, tgt, inc, t)) ELSE led

\* update_delegation_log: UPDATE ... SET status WHERE correlation_id = cid; a failure is
\* logged only
update_delegation_log(led, cid, status) ==
    IF DbOk
    THEN [i \in DOMAIN led |->
            IF led[i].correlation_id = cid
            THEN [led[i] EXCEPT !.status = status, !.updates = @ + 1]
            ELSE led[i]]
    ELSE led

IdleDelegation ==
    [pc |-> "idle", source |-> "none", target |-> "none", incident |-> NoIncident,
     cid |-> "none", started |-> 0, hs_start |-> 0,
     calls |-> <<>>,          \* the send_request_with_handshake calls it made
     primary |-> NoOutcome,   \* what the handshake to the target gave
     status |-> "none", handled_by |-> "none",
     raised |-> FALSE,        \* it ended by propagating an exception to its caller
     \* observers
     created |-> FALSE,       \* its INSERT was executed
     lookup_ok |-> FALSE,     \* its ledger lookup was executed
     prior |-> {},            \* sources of the qualifying entries in the ledger when it started
     prior_latest |-> {}]     \* sources of the most recent of them

\* an entry left by a delegation of another process that has completed
EarlierEntry ==
    [LogEntry("c0", "dispatch-agent", "medical-agent", "INC_A_1", 0)
        EXCEPT !.status = "COMPLETED", !.updates = 1]

DelegInit ==
    /\ deleg = [t \in Tasks |-> IdleDelegation]
    /\ ledger \in {<<>>, <<EarlierEntry>>}

\* no delegation is made
DelegIdle ==
    /\ deleg = [t \in Tasks |-> IdleDelegation]
    /\ ledger = <<>>

\* the frames are taken in order, and the first call is the origin of time
DelegFree(t) ==
    /\ deleg[t].pc = "idle"
    /\ t = "t1" => now = 0
    /\ t = "t2" => deleg["t1"].pc # "idle"
DelegCidFree(cid) == cid = "c2" => \E t \in Tasks : deleg[t].cid = "c1"

\* delegate_to_agent returns
DelegReturn(f, status, by) ==
    [f EXCEPT !.pc = "done", !.status = status, !.handled_by = by, !.hs_start = 0]

\* The send_request_with_handshake call for the target: its target_agent argument and,
\* of its payload, the keys is_failover and original_target (absent: FALSE and "none")
DelegationRequest(target) ==
    [target_agent |-> target, is_failover |-> FALSE, original_target |-> "none"]

\* the call for the failover agent: "is_failover": True, "original_target": target_agent
FailoverRequest(backup, target) ==
    [target_agent |-> backup, is_failover |-> TRUE, original_target |-> target]

\* an exception leaves delegate_to_agent
DelegRaise(f) == [f EXCEPT !.pc = "done", !.raised = TRUE, !.hs_start = 0]

\* delegate_to_agent(request) up to the answer of check_delegation_exists
DelegateStart(t, src, tgt, request, cid) ==
    LET incident == extract_incident_id(request)
        hits == check_delegation_exists(ledger, incident, tgt, now)
        truth == {i \in DOMAIN ledger : LiveEntry(ledger[i], incident, tgt, now)}
        latest == {i \in truth : \A j \in truth : ledger[j].created_at <= ledger[i].created_at}
        f == [deleg[t] EXCEPT !.source = src, !.target = tgt, !.incident = incident,
                              !.cid = cid, !.started = now,
                              !.lookup_ok = (incident # NoIncident /\ DbOk),
                              !.prior = {ledger[i].source_agent : i \in truth},
                              !.prior_latest = {ledger[i].source_agent : i \in latest}]
    IN
    /\ DelegFree(t)
    /\ DelegCidFree(cid)
    /\ <<src, tgt>> \in DelegationTools
    /\ IF hits # {}
       THEN \E i \in hits :
               deleg' = [deleg EXCEPT ![t] =
                            DelegReturn(f, "already_handled", ledger[i].source_agent)]
       ELSE deleg' = [deleg EXCEPT ![t] = [f EXCEPT !.pc = "d_create"]]
    /\ UNCHANGED <<now, ledger, cbVars, msgVars, hsVars, dbVars, rlVars, bcastVars, auxVars>>

\* create_delegation_log, then the call of send_request_with_handshake
DelegateCreate(t) ==
    LET f == deleg[t] IN
    /\ f.pc = "d_create"
    /\ ledger' = create_delegation_log(ledger, f.cid, f.source, f.target, f.incident, now)
    /\ deleg' = [deleg EXCEPT ![t] =
                    [f EXCEPT !.pc = "d_handshake", !.created = DbOk, !.hs_start = now,
                              !.calls = <<DelegationRequest(f.target)>>]]
    /\ UNCHANGED <<now, cbVars, msgVars, hsVars, dbVars, rlVars, bcastVars, auxVars>>

\* when send_request_with_handshake, called at time start, can give outcome out
OutcomeDue(out, start) ==
    /\ out.kind = "circuit_open" => now = start
    /\ out.kind = "timeout" => now - start >= DELEGATION_TIMEOUT

\* the handshake with the target ends: the rest of the try block, or an except clause
DelegateHandshakeEnds(t, out) ==
    LET f == [deleg[t] EXCEPT !.primary = out] IN
    /\ deleg[t].pc = "d_handshake"
    /\ OutcomeDue(out, f.hs_start)
    /\ IF out.kind = "result"
       THEN /\ ledger' = update_delegation_log(ledger, f.cid, "COMPLETED")
            /\ deleg' = [deleg EXCEPT ![t] = DelegReturn(f, "delegated", f.target)]
       ELSE IF IsTimeoutError(out)
       THEN /\ ledger' = update_delegation_log(ledger, f.cid, "TIMEOUT")
            /\ deleg' = [deleg EXCEPT ![t] = DelegReturn(f, "timeout", "none")]
       ELSE IF ~except_Exception(out)
       THEN /\ deleg' = [deleg EXCEPT ![t] = DelegRaise(f)]
            /\ UNCHANGED ledger
       ELSE IF is_connection_failure(out) /\ f.target \in DOMAIN failover_agents
       THEN /\ deleg' = [deleg EXCEPT ![t] =
                            [f EXCEPT !.pc = "d_failover", !.hs_start = now,
                                      !.calls = Append(@, FailoverRequest(failover_agents[f.target], f.target))]]
            /\ UNCHANGED ledger
       ELSE /\ ledger' = update_delegation_log(ledger, f.cid, "FAILED")
            /\ deleg' = [deleg EXCEPT ![t] = DelegReturn(f, "failed", "none")]
    /\ UNCHANGED <<now, cbVars, msgVars, hsVars, dbVars, rlVars, bcastVars, auxVars>>

\* the handshake with the failover agent ends
DelegateFailoverEnds(t, out) ==
    LET f == deleg[t] IN
    /\ f.pc = "d_failover"
    /\ OutcomeDue(out, f.hs_start)
    /\ IF out.kind = "result"
       THEN /\ ledger' = update_delegation_log(ledger, f.cid, "FAILOVER_SUCCESS")
            /\ deleg' = [deleg EXCEPT ![t] =
                            DelegReturn(f, "failover", failover_agents[f.target])]
       \* except Exception as failover_error, then the original failure is logged
       ELSE IF except_Exception(out)
       THEN /\ ledger' = update_delegation_log(ledger, f.cid, "FAILED")
            /\ deleg' = [deleg EXCEPT ![t] = DelegReturn(f, "failed", "none")]
       ELSE /\ deleg' = [deleg EXCEPT ![t] = DelegRaise(f)]
            /\ UNCHANGED ledger
    /\ UNCHANGED <<now, cbVars, msgVars, hsVars, dbVars, rlVars, bcastVars, auxVars>>

\* the clock advances to instant i while delegations wait for their handshakes
TickDeleg(i) ==
    /\ now < i
    /\ now' = i
    /\ UNCHANGED <<cbVars, msgVars, hsVars, dbVars, extVars>>

----------------------------------------------------------------------------
(* FileLockRateLimiter.  Tokens are counted in units of 1/60 token, so     *)
(* that a bucket built for r requests per minute refills r units a second  *)
(* (rate = r / 60.0 tokens per second).  The processes are operating       *)
(* system processes: any of them can be delayed for any time between two   *)
(* steps.  The 0.1 s sleeps are below the resolution of the clock: such a  *)
(* sleep can be over within the second it began in.                        *)

Procs == {"p1", "p2"}

TOKEN == 60                             \* 1.0 token
RATE == RequestsPerMinute               \* self.rate, in units per second
MAX_TOKENS == RequestsPerMinute * TOKEN \* self.max_tokens

Min(a, b) == IF a <= b THEN a ELSE b
\* the least whole number that is no less than a / b
CeilDiv(a, b) == (a + b - 1) \div b

\* owner is an observer: the process whose os.open created the file
NoLock == [exists |-> FALSE, mtime |-> 0, owner |-> "none"]
Lock(t, p) == [exists |-> TRUE, mtime |-> t, owner |-> p]

\* the file just opened for writing, before json.dump has written into it
Truncated == [kind |-> "empty", tokens |-> 0, last_update |-> 0]
BucketState(tokens, t) == [kind |-> "state", tokens |-> tokens, last_update |-> t]

\* _read_state: the content, or a full bucket when the file cannot be parsed
read_state(file, t) ==
    IF file.kind = "state" THEN file ELSE BucketState(MAX_TOKENS, t)

refill_unbounded(state, t) == state.tokens + (t - state.last_update) * RATE

\* new_tokens = min(self.max_tokens, tokens + elapsed * self.rate)
refill(state, t) == Min(MAX_TOKENS, state.tokens + (t - state.last_update) * RATE)

CanConsume_any(new_tokens) == new_tokens >= 0

\* if new_tokens >= 1.0
CanConsume(new_tokens) == new_tokens >= TOKEN

\* asyncio.sleep(wait_time + 0.1) with wait_time = (1.0 - new_tokens) / self.rate: the
\* whole seconds after which the sleep can be over, ceil((TOKEN - new_tokens) / RATE + 0.1)
sleep_time(new_tokens) == CeilDiv(10 * (TOKEN - new_tokens) + RATE, 10 * RATE)

NoState == [kind |-> "none", tokens |-> 0, last_update |-> 0]

\* if wait_time <= 0: return 0.0, the only return of acquire(); waited is what the call
\* has slept so far, which acquire() keeps no account of
acquire_return(waited) == 0

IdleProc ==
    [pc |-> "idle",
     start_time |-> 0,       \* start_time of _acquire_lock
     wake |-> 0,             \* when its sleep is over
     state |-> NoState,      \* the local variable state of acquire
     waits |-> FALSE,        \* wait_time > 0
     ret |-> 0,              \* what its last acquire() returned, in seconds
     \* observers
     calls |-> 0,            \* acquire() calls made
     returned |-> 0,         \* acquire() calls that have returned
     io_failed |-> FALSE,    \* a read or a write of the state file failed in its current or last call
     slept |-> 0,            \* seconds its current or last call slept waiting for a refill,
                             \* counted up to SleptCap
     turn |-> 0]             \* flips at each call of a process that keeps calling

\* The limiters have been constructed: the state file holds a full bucket.  The lock
\* file may be there, left by a process that died holding it.
RLInit ==
    /\ lockFile \in {NoLock, Lock(0, "dead")}
    /\ stateFile = BucketState(MAX_TOKENS, 0)
    /\ proc = [p \in Procs |-> IdleProc]

\* the rate limiter is not in use
RLIdle ==
    /\ lockFile = NoLock
    /\ stateFile = BucketState(MAX_TOKENS, 0)
    /\ proc = [p \in Procs |-> IdleProc]

otherVars == <<cbVars, msgVars, hsVars, dbVars, delegVars, bcastVars, auxVars>>

\* acquire() is called
AcquireCall(p) ==
    /\ proc[p].pc = "idle"
    /\ proc[p].calls < MaxCalls
    /\ proc' = [proc EXCEPT ![p].pc = "lock_try", ![p].start_time = now, ![p].calls = @ + 1,
                             ![p].slept = 0, ![p].io_failed = FALSE]
    /\ UNCHANGED <<now, lockFile, stateFile, otherVars>>

\* acquire() is called by a process that keeps calling: the calls counted stop at MaxCalls
AcquireAgain(p) ==
    /\ proc[p].pc = "idle"
    /\ proc' = [proc EXCEPT ![p].pc = "lock_try", ![p].start_time = now,
                             ![p].calls = Min(@ + 1, MaxCalls), ![p].turn = 1 - @,
                             ![p].slept = 0, ![p].io_failed = FALSE]
    /\ UNCHANGED <<now, lockFile, stateFile, otherVars>>

\* _acquire_lock: the loop test and os.open(O_CREAT | O_EXCL)
LockTry(p) ==
    /\ proc[p].pc = "lock_try"
    /\ IF now - proc[p].start_time < LOCK_TIMEOUT
       THEN IF ~lockFile.exists
            THEN /\ lockFile' = Lock(now, p)
                 /\ proc' = [proc EXCEPT ![p].pc = "read", ![p].start_time = 0]
            ELSE /\ proc' = [proc EXCEPT ![p].pc = "stat"]
                 /\ UNCHANGED lockFile
       ELSE /\ proc' = [proc EXCEPT ![p].pc = "fail_sleep", ![p].start_time = 0,
                                    ![p].wake = now + LOCK_FAIL_SLEEP]
            /\ UNCHANGED lockFile
    /\ UNCHANGED <<now, stateFile, otherVars>>

is_stale_never(mtime, t) == FALSE

\* if time.time() - stats.st_mtime > 5.0
is_stale(mtime, t) == t - mtime > LOCK_STALE

\* _acquire_lock after FileExistsError: stat() and the staleness test
LockStat(p) ==
    /\ proc[p].pc = "stat"
    /\ IF lockFile.exists /\ is_stale(lockFile.mtime, now)
       THEN proc' = [proc EXCEPT ![p].pc = "unlink_stale"]
       ELSE proc' = [proc EXCEPT ![p].pc = "lock_sleep"]
    /\ UNCHANGED <<now, lockFile, stateFile, otherVars>>

\* _acquire_lock: unlink() of the lock found stale; FileNotFoundError is passed over
LockUnlinkStale(p) ==
    /\ proc[p].pc = "unlink_stale"
    /\ lockFile' = NoLock
    /\ proc' = [proc EXCEPT ![p].pc = "lock_sleep"]
    /\ UNCHANGED <<now, stateFile, otherVars>>

\* _acquire_lock: time.sleep(0.1) is over
LockRetry(p) ==
    /\ proc[p].pc = "lock_sleep"
    /\ proc' = [proc EXCEPT ![p].pc = "lock_try"]
    /\ UNCHANGED <<now, lockFile, stateFile, otherVars>>

\* acquire: _acquire_lock returned False, asyncio.sleep(1) is over, continue
LockFailRetry(p) ==
    /\ proc[p].pc = "fail_sleep"
    /\ now >= proc[p].wake
    /\ proc' = [proc EXCEPT ![p].pc = "lock_try", ![p].start_time = now, ![p].wake = 0]
    /\ UNCHANGED <<now, lockFile, stateFile, otherVars>>

\* acquire: state = self._read_state(); ok: open and json.load raise nothing for a file
\* that can be parsed
ReadState(p, ok) ==
    /\ proc[p].pc = "read"
    /\ proc' = [proc EXCEPT ![p].pc = "refill",
                             ![p].state = IF ok THEN read_state(stateFile, now)
                                          ELSE BucketState(MAX_TOKENS, now),
                             ![p].io_failed = @ \/ ~ok]
    /\ UNCHANGED <<now, lockFile, stateFile, otherVars>>

\* acquire: now = time.time(), the refill, the choice between consuming and waiting, and
\* the open(state_file, "w") of _write_state, which truncates the file; opened: the open
\* raises nothing (when it raises, _write_state logs the error and returns)
Refill(p, opened) ==
    LET new_tokens == refill(proc[p].state, now)
        next == IF opened THEN "dump" ELSE "release" IN
    /\ proc[p].pc = "refill"
    /\ IF CanConsume(new_tokens)
       THEN proc' = [proc EXCEPT ![p].pc = next, ![p].waits = FALSE,
                                 ![p].state = IF opened THEN BucketState(new_tokens - TOKEN, now)
                                              ELSE NoState,
                                 ![p].io_failed = @ \/ ~opened]
       ELSE proc' = [proc EXCEPT ![p].pc = next, ![p].waits = TRUE,
                                 ![p].wake = sleep_time(new_tokens),
                                 ![p].state = IF opened THEN BucketState(new_tokens, now)
                                              ELSE NoState,
                                 ![p].io_failed = @ \/ ~opened]
    /\ stateFile' = IF opened THEN Truncated ELSE stateFile
    /\ UNCHANGED <<now, lockFile, otherVars>>

\* _write_state: json.dump(state, f) and the close of the file; dumped: json.dump raises
\* nothing (when it raises, the file stays as far as it was written)
Dump(p, dumped) ==
    /\ proc[p].pc = "dump"
    /\ stateFile' = IF dumped THEN proc[p].state ELSE stateFile
    /\ proc' = [proc EXCEPT ![p].pc = "release", ![p].state = NoState,
                             ![p].io_failed = @ \/ ~dumped]
    /\ UNCHANGED <<now, lockFile, otherVars>>

Release_keep_lock(p) ==
    /\ proc[p].pc = "release"
    /\ lockFile' = lockFile
    /\ IF ~proc[p].waits
       THEN proc' = [proc EXCEPT ![p].pc = "idle", ![p].returned = Min(@ + 1, MaxCalls),
                                 ![p].ret = acquire_return(proc[p].slept)]
       ELSE proc' = [proc EXCEPT ![p].pc = "refill_sleep", ![p].waits = FALSE,
                                 ![p].slept = Min(@ + proc[p].wake, SleptCap),
                                 ![p].wake = now + @]
    /\ UNCHANGED <<now, stateFile, otherVars>>

\* finally: _release_lock(), then return 0.0 or asyncio.sleep(wait_time + 0.1)
Release(p) ==
    /\ proc[p].pc = "release"
    /\ lockFile' = NoLock
    /\ IF ~proc[p].waits
       THEN proc' = [proc EXCEPT ![p].pc = "idle", ![p].returned = Min(@ + 1, MaxCalls),
                                 ![p].ret = acquire_return(proc[p].slept)]
       ELSE proc' = [proc EXCEPT ![p].pc = "refill_sleep", ![p].waits = FALSE,
                                 ![p].slept = Min(@ + proc[p].wake, SleptCap),
                                 ![p].wake = now + @]
    /\ UNCHANGED <<now, stateFile, otherVars>>

\* acquire: asyncio.sleep(wait_time + 0.1) is over, loop back
RefillWake(p) ==
    /\ proc[p].pc = "refill_sleep"
    /\ now >= proc[p].wake
    /\ proc' = [proc EXCEPT ![p].pc = "lock_try", ![p].start_time = now, ![p].wake = 0]
    /\ UNCHANGED <<now, lockFile, stateFile, otherVars>>

\* The instants the clock stops at: when a sleeping process is due, when a lock made at 0
\* or at the instant when that one went stale is stale, and when a lock wait begun at 0
\* gives up.
RLInstants ==
    {LOCK_STALE + 1, LOCK_TIMEOUT, 2 * (LOCK_STALE + 1)} \cup
    {proc[p].wake : p \in {q \in Procs : proc[q].pc \in {"fail_sleep", "refill_sleep"}}}

TickRL(i) ==
    /\ now < i
    /\ i <= MaxTimeRL
    /\ now' = i
    /\ UNCHANGED <<lockFile, stateFile, proc, otherVars>>

\* The code uses the instants it keeps (st_mtime of the lock file, last_update, the
\* start_time of _acquire_lock, the ends of its sleeps) only in differences with
\* time.time().  Elapse lets d seconds pass with the clock's reading held fixed and those
\* instants moved d seconds into the past instead, each no further than the age beyond
\* which the code tells no difference: a lock is stale, the bucket is full again,
\* _acquire_lock has timed out, a sleep is over.
Max(a, b) == IF a >= b THEN a ELSE b

\* seconds after which an empty bucket is full again
FULL_AFTER == CeilDiv(MAX_TOKENS, RATE)

Aged(state, d) ==
    IF state.kind = "state"
    THEN [state EXCEPT !.last_update = Max(@ - d, now - FULL_AFTER)]
    ELSE state

Elapse(d) ==
    /\ lockFile' = IF lockFile.exists
                   THEN [lockFile EXCEPT !.mtime = Max(@ - d, now - (LOCK_STALE + 1))]
                   ELSE lockFile
    /\ stateFile' = Aged(stateFile, d)
    /\ proc' = [p \in Procs |->
                  LET f == proc[p] IN
                  [f EXCEPT !.start_time = IF f.pc \in {"lock_try", "stat", "unlink_stale", "lock_sleep"}
                                           THEN Max(@ - d, now - LOCK_TIMEOUT) ELSE @,
                            !.wake = IF f.pc \in {"fail_sleep", "refill_sleep"}
                                     THEN Max(@ - d, now) ELSE @,
                            !.state = Aged(@, d)]]
    /\ UNCHANGED <<now, otherVars>>

\* In how many seconds something falls due: a sleep ends, the lock file becomes stale,
\* an _acquire_lock gives up
DueIn ==
    {d \in {proc[p].wake - now : p \in {q \in Procs : proc[q].pc \in {"fail_sleep", "refill_sleep"}}}
           \cup {proc[p].start_time + LOCK_TIMEOUT - now :
                    p \in {q \in Procs : proc[q].pc \in {"lock_try", "stat", "unlink_stale", "lock_sleep"}}}
           \cup (IF lockFile.exists THEN {lockFile.mtime + LOCK_STALE + 1 - now} ELSE {}) :
        d > 0}

\* the process can do nothing that takes it further until time has passed: it is outside
\* acquire(), asleep, or going round the loop of _acquire_lock on a lock file that is
\* there and not stale
MustWait(p) ==
    CASE proc[p].pc = "idle" -> TRUE
      [] proc[p].pc \in {"fail_sleep", "refill_sleep"} -> proc[p].wake > now
      [] proc[p].pc \in {"lock_try", "stat", "lock_sleep"} ->
            /\ lockFile.exists
            /\ ~is_stale(lockFile.mtime, now)
            /\ now - proc[p].start_time < LOCK_TIMEOUT
      [] OTHER -> FALSE

\* Time passes until something falls due, once no process can get further without it:
\* the steps of acquire() themselves take no time.
ElapseDue ==
    /\ \A p \in Procs : MustWait(p)
    /\ \E d \in DueIn : Elapse(d)

----------------------------------------------------------------------------
(* broadcast and failover_call.  asyncio.gather runs one failover_call per  *)
(* agent of the list, each in the frame of its position; the frames take    *)
(* their steps in any order.                                                *)

\* the lists of distinct agents broadcast is called with
BroadcastLists ==
    {<<a>> : a \in Agents} \cup {<<a, b>> : <<a, b>> \in {p \in Agents \X Agents : p[1] # p[2]}}

\* the frame running the failover_call of the i-th agent of the list
TaskOf(i) == IF i = 1 THEN "t1" ELSE "t2"

NoResult == [a \in {} |-> "none"]

IdleBroadcast ==
    [pc |-> "idle", source |-> "none", agents |-> <<>>, outcome |-> "none",
     results |-> NoResult]

\* no broadcast is made
BcastIdle == bcast = IdleBroadcast

\* what the failover_call ending as frame f does: [how, status]
failover_call_no_except(f) == [how |-> f.outcome, status |-> f.value]

\* failover_call: the dictionary send_message returned, or, on any Exception,
\* {"status": "unreachable", "agent": agent_name}
failover_call(f) ==
    IF f.outcome = "raise" THEN [how |-> "return", status |-> "unreachable"]
    ELSE [how |-> "return", status |-> f.value]

\* broadcast: the coroutines are created and handed to asyncio.gather
Broadcast(src, agents) ==
    /\ bcast.pc = "idle"
    /\ \A t \in Tasks : task[t].pc = "idle"
    /\ now <= MaxStart
    /\ bcast' = [bcast EXCEPT !.pc = "gather", !.source = src, !.agents = agents]
    /\ task' = [t \in Tasks |->
                  IF \E i \in 1..Len(agents) : t = TaskOf(i)
                  THEN LET i == CHOOSE i \in 1..Len(agents) : t = TaskOf(i) IN
                       [IdleFrame EXCEPT !.kind = "send", !.pc = "fc_start", !.source = src,
                                         !.target = agents[i], !.retries = 1]
                  ELSE task[t]]
    /\ UNCHANGED <<now, cbVars, consulCache, a2aClients, hsVars, dbVars, delegVars, rlVars, auxVars>>

\* failover_call begins: send_message(source, agent_name, text, retries=1) up to its first
\* await, the circuit breaker gate
FailoverCall(t) ==
    /\ task[t].pc = "fc_start"
    /\ LET f == [task[t] EXCEPT !.wake = now]
           tgt == f.target
           ok == allow_request(circuits, tgt, now)
           c1 == allow_request_circuits(circuits, tgt, now) IN
       /\ circuits' = c1
       /\ obs' = obs_allow(obs, circuits, tgt, now)
       /\ task' = [task EXCEPT ![t] = IF ok THEN [f EXCEPT !.pc = "s_attempt"]
                                      ELSE Return(f, "circuit_open", c1, handshakes, pending)]
    /\ UNCHANGED <<now, lastOp, consulCache, a2aClients, hsVars, dbVars, extVars>>

\* asyncio.gather is over: every failover_call has returned, or one has raised; the
\* dictionary is built from zip(agents, results)
BroadcastEnds ==
    LET n == Len(bcast.agents)
        res == [i \in 1..n |-> failover_call(task[TaskOf(i)])] IN
    /\ bcast.pc = "gather"
    /\ IF \E i \in 1..n : task[TaskOf(i)].pc = "done" /\ res[i].how = "raise"
       THEN bcast' = [bcast EXCEPT !.pc = "done", !.outcome = "raise"]
       ELSE /\ \A i \in 1..n : task[TaskOf(i)].pc = "done"
            /\ bcast' = [bcast EXCEPT !.pc = "done", !.outcome = "return",
                                      !.results = [a \in {bcast.agents[i] : i \in 1..n} |->
                                                     LET i == CHOOSE i \in 1..n : bcast.agents[i] = a
                                                     IN res[i].status]]
    /\ UNCHANGED <<now, cbVars, msgVars, hsVars, dbVars, delegVars, rlVars, auxVars>>

----------------------------------------------------------------------------
(* The environment: the durable store fails and recovers, the clock advances *)

DbFlip ==
    /\ nFlips < MaxDbFlips
    /\ nFlips' = nFlips + 1
    /\ dbUp' = ~dbUp
    /\ UNCHANGED <<now, cbVars, msgVars, hsVars, extVars>>

\* A frame lets d seconds pass: it is not running, or it sleeps at least that long.
\* Store and transport answer at once, and a sleeper is woken on time.
CanPass(f, d) ==
    CASE f.pc \in {"idle", "done"} -> TRUE
      [] f.pc \in {"s_attempt", "h_poll"} -> now + d <= f.wake
      [] f.pc = "h_future" -> f.future = "pending" /\ now + d <= f.wake
      [] OTHER -> FALSE

Tick(d) ==
    /\ now + d <= MaxTime
    /\ \A t \in Tasks : CanPass(task[t], d)
    /\ updates = {}
    /\ now' = now + d
    /\ UNCHANGED <<cbVars, msgVars, hsVars, dbVars, extVars>>

----------------------------------------------------------------------------
(* The breaker's four operations called directly *)

CallGetState(a) ==
    /\ circuits' = get_state_circuits(circuits, a, now)
    /\ lastOp' = Op("get_state", a, get_state(circuits, a, now) = HALF_OPEN)
    /\ UNCHANGED <<now, obs, msgVars, hsVars, dbVars, extVars>>

CallRecordSuccess(a) ==
    /\ circuits[a] # Absent
    /\ circuits' = record_success(circuits, a)
    /\ lastOp' = Op("record_success", a, TRUE)
    /\ obs' = obs_success(obs, a)
    /\ UNCHANGED <<now, msgVars, hsVars, dbVars, extVars>>

CallRecordFailure(a) ==
    /\ circuits[a].failures < MaxFailures
    /\ circuits' = record_failure(circuits, a, now)
    /\ lastOp' = Op("record_failure", a, TRUE)
    /\ obs' = obs_failure(obs, a, now)
    /\ UNCHANGED <<now, msgVars, hsVars, dbVars, extVars>>

CallAllowRequest(a) ==
    /\ circuits' = allow_request_circuits(circuits, a, now)
    /\ lastOp' = Op("allow_request", a, allow_request(circuits, a, now))
    /\ obs' = obs_allow(obs, circuits, a, now)
    /\ UNCHANGED <<now, msgVars, hsVars, dbVars, extVars>>

----------------------------------------------------------------------------
(* Specifications *)

\* Instants at which the breaker-only specification looks at the clock
CBTickSteps == {30, 31}

ExtInit ==
    /\ DelegIdle
    /\ RLIdle
    /\ BcastIdle
    /\ AuxIdle

IdleInit ==
    /\ MsgInit
    /\ HsInit
    /\ dbUp = TRUE
    /\ nFlips = 0
    /\ ExtInit

\* The circuit breaker alone
InitCB ==
    /\ now = 0
    /\ CBInit
    /\ IdleInit

NextCB ==
    \/ \E a \in Agents : CallGetState(a)
    \/ \E a \in Agents : CallRecordSuccess(a)
    \/ \E a \in Agents : CallRecordFailure(a)
    \/ \E a \in Agents : CallAllowRequest(a)
    \/ \E d \in CBTickSteps : Tick(d)

SpecCB == InitCB /\ [][NextCB]_vars

\* Concurrent send_message calls
InitSend ==
    /\ now = 0
    /\ CBInit
    /\ IdleInit

NextSend ==
    \/ \E t \in Tasks, src \in Sources, tgt \in Agents, n \in {1, 3} : StartSend(t, src, tgt, n)
    \/ \E t \in Tasks, delivered \in BOOLEAN, reg \in RegistryAnswers : SendAttempt(t, delivered, reg)
    \/ now < MaxTimeMsg /\ Tick(1)

SpecSend == InitSend /\ [][NextSend]_vars

\* Concurrent send_message calls of one agent, their passes taken step by step
NextAttempt ==
    \/ \E t \in Tasks, src \in Sources, tgt \in HsTargets, n \in {1, 3} : StartSend(t, src, tgt, n)
    \/ \E t \in Tasks : GetClient(t)
    \/ \E t \in Tasks, reply \in RegistryReplies : ClientResolved(t, reply)
    \/ \E t \in Tasks, delivered \in BOOLEAN, yields \in BOOLEAN : TransmitEnds(t, delivered, yields)
    \/ \E t \in Tasks : ClientClosed(t)
    \/ now < MaxTimeMsg /\ Tick(1)

SpecAttempt == InitSend /\ [][NextAttempt]_vars

\* Concurrent get_service_url calls and cache invalidations
NextResolve ==
    \/ \E l \in Lookups, name \in ServiceNames : GetServiceUrl(l, name)
    \/ \E l \in Lookups, reply \in RegistryReplies : ConsulReplies(l, reply)
    \/ \E name \in ServiceNames : InvalidateCache(name)

SpecResolve == InitSend /\ [][NextResolve]_vars


\* Concurrent send_request_with_handshake calls, resolutions, and store outages
InitHS ==
    /\ now = 0
    /\ CBInit
    /\ MsgInit
    /\ HsInit
    /\ DbInit
    /\ ExtInit

NextHS ==
    \/ \E t \in Tasks, src \in Sources, tgt \in HsTargets, cid \in Cids, timeout \in Timeouts :
          StartHandshake(t, src, tgt, cid, timeout)
    \/ \E t \in Tasks : HsCreate(t)
    \/ \E t \in Tasks, delivered \in BOOLEAN : SendAttempt(t, delivered, NoUrl)
    \/ \E t \in Tasks : HsPoll(t)
    \/ \E t \in Tasks : HsFuture(t)
    \/ \E cid \in Cids, r \in Payloads, local \in BOOLEAN : ResolveHandshake(cid, r, local)
    \/ \E u \in updates : UpdateHandshakeRecord(u)
    \/ DbFlip
    \/ now < MaxTimeMsg /\ Tick(1)

SpecHS == InitHS /\ [][NextHS]_vars

\* send_message calls at a circuit breaker gate that other calls of the process have
\* opened, probed and closed
NextGate ==
    \/ \E src \in Sources, tgt \in HsTargets : StartSend("t1", src, tgt, 1)
    \/ \E delivered \in BOOLEAN, reg \in RegistryAnswers : SendAttempt("t1", delivered, reg)
    \/ \E a \in HsTargets : CallRecordFailure(a)
    \/ \E a \in HsTargets : CallRecordSuccess(a)
    \/ \E a \in HsTargets : CallAllowRequest(a)
    \/ task["t1"].pc = "s_attempt" /\ Tick(1)
    \/ Tick(CIRCUIT_RESET_TIMEOUT + 1)

SpecGate == InitSend /\ [][NextGate]_vars

\* A send_message call, its passes taken step by step, while other calls of the process
\* record failures and successes on the same circuit
NextLoopGate ==
    \/ \E src \in Sources, tgt \in HsTargets, n \in {1, 3} : StartSend("t1", src, tgt, n)
    \/ GetClient("t1")
    \/ \E reply \in RegistryReplies : ClientResolved("t1", reply)
    \/ \E delivered \in BOOLEAN, yields \in BOOLEAN : TransmitEnds("t1", delivered, yields)
    \/ ClientClosed("t1")
    \/ \E a \in HsTargets : CallRecordFailure(a)
    \/ \E a \in HsTargets : CallRecordSuccess(a)
    \/ now < MaxTimeMsg /\ Tick(1)
    \/ Tick(CIRCUIT_RESET_TIMEOUT + 1)

SpecLoopGate == InitSend /\ [][NextLoopGate]_vars

\* A send_request_with_handshake call at a circuit breaker gate that other calls of the
\* process have opened, probed and closed
NextHsGate ==
    \/ \E src \in Sources, tgt \in HsTargets, cid \in Cids, timeout \in Timeouts :
          StartHandshake("t1", src, tgt, cid, timeout)
    \/ HsCreate("t1")
    \/ \E delivered \in BOOLEAN : SendAttempt("t1", delivered, NoUrl)
    \/ HsPoll("t1")
    \/ HsFuture("t1")
    \/ \E local \in BOOLEAN : ResolveHandshake("c1", "ok", local)
    \/ \E u \in updates : UpdateHandshakeRecord(u)
    \/ \E a \in HsTargets : CallRecordFailure(a)
    \/ \E a \in HsTargets : CallRecordSuccess(a)
    \/ \E a \in HsTargets : CallAllowRequest(a)
    \/ task["t1"].pc \in {"s_attempt", "h_poll", "h_future"} /\ Tick(1)
    \/ Tick(CIRCUIT_RESET_TIMEOUT + 1)

SpecHsGate == InitHS /\ [][NextHsGate]_vars

\* send_request_with_handshake calls made one after another, the later one once the
\* earlier one has timed out, and a resolution that arrives at any time
NextLate ==
    \/ \E t \in Tasks, src \in Sources, tgt \in HsTargets, cid \in Cids, timeout \in Timeouts :
          StartHandshake(t, src, tgt, cid, timeout)
    \/ \E t \in Tasks : HsCreate(t)
    \/ \E t \in Tasks, delivered \in BOOLEAN : SendAttempt(t, delivered, NoUrl)
    \/ \E t \in Tasks : HsPoll(t)
    \/ \E t \in Tasks : HsFuture(t)
    \/ \E cid \in Cids, local \in BOOLEAN : ResolveHandshake(cid, "ok", local)
    \/ \E u \in updates : UpdateHandshakeRecord(u)
    \/ DbFlip
    \/ now < MaxTimeMsg /\ Tick(1)
    \/ now >= Later /\ now < Later + 3 /\ Tick(1)
    \/ now < Later /\ Tick(Later - now)

SpecLate == InitHS /\ [][NextLate]_vars

\* One request and two resolutions of its correlation id
Resolutions == 2

NextTwice ==
    \/ \E src \in Sources, tgt \in HsTargets, timeout \in Timeouts :
          StartHandshake("t1", src, tgt, "c1", timeout)
    \/ HsCreate("t1")
    \/ \E delivered \in BOOLEAN : SendAttempt("t1", delivered, NoUrl)
    \/ HsPoll("t1")
    \/ HsFuture("t1")
    \/ \E r \in Payloads, local \in BOOLEAN :
          nResolves < Resolutions /\ resolve_handshake("c1", r, local)
    \/ \E u \in updates : UpdateHandshakeRecord(u)
    \/ DbFlip
    \/ now < MaxTimeMsg /\ Tick(1)

SpecTwice == InitHS /\ [][NextTwice]_vars

\* Two requests of one agent to two targets, under any correlation ids, each target
\* answering the request it received
RequestTo == [t1 |-> "medical-agent", t2 |-> "police-chief-agent"]
\* the result each target produces
AnswerOf == [t1 |-> "ok", t2 |-> "tuple"]

\* the HANDSHAKE_REQUEST of frame f has reached its target
RequestReceived(f) == f.kind = "handshake" /\ f.attempts >= 1 /\ f.successes >= 1

\* the target of request t answers it: HANDSHAKE_RESULT with the correlation id of the
\* request, handled by resolve_handshake(cid, data)
AnswerHandshake(t, local) ==
    /\ RequestReceived(task[t])
    /\ nResolves < Resolutions
    /\ resolve_handshake(task[t].cid, AnswerOf[t], local)

NextIso ==
    \/ \E t \in Tasks, src \in Sources, cid \in Cids, timeout \in Timeouts :
          StartHandshake(t, src, RequestTo[t], cid, timeout)
    \/ \E t \in Tasks : HsCreate(t)
    \/ \E t \in Tasks, delivered \in BOOLEAN : SendAttempt(t, delivered, NoUrl)
    \/ \E t \in Tasks : HsPoll(t)
    \/ \E t \in Tasks : HsFuture(t)
    \/ \E t \in Tasks, local \in BOOLEAN : AnswerHandshake(t, local)
    \/ \E u \in updates : UpdateHandshakeRecord(u)
    \/ DbFlip
    \/ now < MaxTimeMsg /\ Tick(1)

SpecIso == InitHS /\ [][NextIso]_vars

\* Concurrent delegate_to_agent calls, in one process or several, and store outages
\* the instants the clock of the delegation specification stops at: the handshake
\* timeout of a call made at 0, and the end of the dedup window of an entry created at 0
DelegInstants == {DELEGATION_TIMEOUT, DEDUP_WINDOW}

InitDeleg ==
    /\ now = 0
    /\ CBInit
    /\ MsgInit
    /\ HsInit
    /\ DbInit
    /\ DelegInit
    /\ RLIdle
    /\ BcastIdle
    /\ AuxIdle

NextDeleg ==
    \/ \E t \in Tasks, tool \in DelegationTools, request \in Requests, cid \in Cids :
          DelegateStart(t, tool[1], tool[2], request, cid)
    \/ \E t \in Tasks : DelegateCreate(t)
    \/ \E t \in Tasks, out \in HandshakeOutcomes : DelegateHandshakeEnds(t, out)
    \/ \E t \in Tasks, out \in HandshakeOutcomes : DelegateFailoverEnds(t, out)
    \/ DbFlip
    \/ \E i \in DelegInstants : TickDeleg(i)

SpecDeleg == InitDeleg /\ [][NextDeleg]_vars

\* Agent processes sharing the rate limiter's files
InitRL ==
    /\ now = 0
    /\ CBInit
    /\ MsgInit
    /\ HsInit
    /\ dbUp = TRUE
    /\ nFlips = 0
    /\ DelegIdle
    /\ RLInit
    /\ BcastIdle
    /\ AuxIdle

NextRL ==
    \/ \E p \in Procs : AcquireCall(p)
    \/ \E p \in Procs : LockTry(p)
    \/ \E p \in Procs : LockStat(p)
    \/ \E p \in Procs : LockUnlinkStale(p)
    \/ \E p \in Procs : LockRetry(p)
    \/ \E p \in Procs : LockFailRetry(p)
    \/ \E p \in Procs : ReadState(p, TRUE)
    \/ \E p \in Procs : Refill(p, TRUE)
    \/ \E p \in Procs : Dump(p, TRUE)
    \/ \E p \in Procs : Release(p)
    \/ \E p \in Procs : RefillWake(p)
    \/ \E i \in RLInstants : TickRL(i)

SpecRL == InitRL /\ [][NextRL]_vars

\* The same, with reads and writes of the state file that fail
NextRLFaults ==
    \/ \E p \in Procs : AcquireCall(p)
    \/ \E p \in Procs : LockTry(p)
    \/ \E p \in Procs : LockStat(p)
    \/ \E p \in Procs : LockUnlinkStale(p)
    \/ \E p \in Procs : LockRetry(p)
    \/ \E p \in Procs : LockFailRetry(p)
    \/ \E p \in Procs, ok \in BOOLEAN : ReadState(p, ok)
    \/ \E p \in Procs, opened \in BOOLEAN : Refill(p, opened)
    \/ \E p \in Procs, dumped \in BOOLEAN : Dump(p, dumped)
    \/ \E p \in Procs : Release(p)
    \/ \E p \in Procs : RefillWake(p)
    \/ \E i \in RLInstants : TickRL(i)

SpecRLFaults == InitRL /\ [][NextRLFaults]_vars

\* The rate limiter shared by processes that keep calling acquire(), for as long as one
\* likes.  Every process that can take a step of acquire() eventually takes it (fair
\* scheduling), and time passes.  Whether and when a process calls is its own choice.
ProcStep(p) ==
    \/ LockTry(p)
    \/ LockStat(p)
    \/ LockUnlinkStale(p)
    \/ LockRetry(p)
    \/ LockFailRetry(p)
    \/ ReadState(p, TRUE)
    \/ Refill(p, TRUE)
    \/ Dump(p, TRUE)
    \/ Release(p)
    \/ RefillWake(p)

NextRLFair ==
    \/ \E p \in Procs : AcquireAgain(p)
    \/ \E p \in Procs : ProcStep(p)
    \/ ElapseDue

SpecRLFair ==
    /\ InitRL
    /\ [][NextRLFair]_vars
    /\ \A p \in Procs : WF_vars(ProcStep(p))
    /\ WF_vars(ElapseDue)

\* no failover_call has passed the circuit breaker gate
BeforeGates == \A t \in Tasks : task[t].pc \in {"idle", "fc_start"}

\* A broadcast.  Other calls of the process record failures and successes on the same
\* circuit breaker until the gates of the broadcast's calls are passed; what they record
\* later has no part in the broadcast.
InitBcast ==
    /\ now = 0
    /\ CBInit
    /\ IdleInit

\* RateLimitRetryRunner.run_async calls of one executor
InitRetry ==
    /\ now = 0
    /\ CBInit
    /\ IdleInit

NextRetry ==
    \/ \E r \in Runs, session_id \in CallerSessions, max_retries \in 0..MaxRetriesTried :
          RunAsync(r, session_id, max_retries)
    \/ \E r \in Runs, ok \in BOOLEAN : CreateRetrySession(r, ok)
    \/ \E r \in Runs, e \in RunErrors \cup {NoError}, added \in BOOLEAN : RunnerAttempt(r, e, added)
    \/ \E r \in Runs : RetrySleep(r)

SpecRetry == InitRetry /\ [][NextRetry]_vars

NextBcast ==
    \/ \E src \in Sources, agents \in BroadcastLists : Broadcast(src, agents)
    \/ \E t \in Tasks : FailoverCall(t)
    \/ \E t \in Tasks, delivered \in BOOLEAN, reg \in RegistryAnswers : SendAttempt(t, delivered, reg)
    \/ BroadcastEnds
    \/ \E a \in Agents : BeforeGates /\ CallRecordFailure(a)
    \/ \E a \in Agents : BeforeGates /\ CallRecordSuccess(a)
    \/ now < MaxTimeMsg /\ Tick(1)

SpecBcast == InitBcast /\ [][NextBcast]_vars

----------------------------------------------------------------------------
(* C4: after threshold (3) consecutive record_failure calls with no         *)
(* record_success in between, allow_request returns false on every call     *)
(* made until reset_timeout (60 s) has elapsed since the last recorded     *)
(* failure.  allow_request is evaluated in every reachable state, which is *)
(* every state in which it can be called.                                  *)
C4_OpenAfterThreshold ==
    \A a \in Agents :
        (obs[a].consec >= CIRCUIT_FAILURE_THRESHOLD
            /\ now - obs[a].lastFail <= CIRCUIT_RESET_TIMEOUT)
        => ~allow_request(circuits, a, now)

\* an allow_request refused exactly reset_timeout after the third failure in a row
C4_Witness ==
    \E a \in Agents :
        /\ lastOp.op = "allow_request" /\ lastOp.agent = a /\ ~lastOp.ret
        /\ obs[a].consec = CIRCUIT_FAILURE_THRESHOLD
        /\ now - obs[a].lastFail = CIRCUIT_RESET_TIMEOUT

(* C5: once a destination is HALF_OPEN, allow_request returns true for      *)
(* exactly half_open_max (1) call and false for every later call until a    *)
(* record_success or record_failure; a record_failure then puts it back to  *)
(* OPEN and a record_success to CLOSED.                                     *)
C5_HalfOpenProbe ==
    \A a \in Agents :
        /\ circuits[a].state = HALF_OPEN =>
              /\ obs[a].granted <= CIRCUIT_HALF_OPEN_MAX
              /\ allow_request(circuits, a, now) <=> (obs[a].granted < CIRCUIT_HALF_OPEN_MAX)
        /\ (lastOp.agent = a /\ lastOp.pre.state = HALF_OPEN) =>
              /\ lastOp.op = "record_failure" => circuits[a].state = OPEN
              /\ lastOp.op = "record_success" => circuits[a].state = CLOSED
              /\ (lastOp.op = "allow_request" /\ ~lastOp.ret) =>
                    obs[a].granted = CIRCUIT_HALF_OPEN_MAX

\* a second allow_request on a HALF_OPEN destination, refused after the one probe was granted
C5_Witness ==
    \E a \in Agents :
        /\ lastOp.op = "allow_request" /\ lastOp.agent = a /\ ~lastOp.ret
        /\ lastOp.pre.state = HALF_OPEN
        /\ circuits[a].state = HALF_OPEN
        /\ obs[a].granted = CIRCUIT_HALF_OPEN_MAX


----------------------------------------------------------------------------
C1_ResolvedResultReturned ==
    \A t \in Tasks :
        LET f == task[t] IN
        (f.kind = "handshake" /\ f.pc = "done" /\ f.resolved # {})
        => (f.outcome = "return" /\ f.value \in f.resolved)

(* C7: a send_request_with_handshake whose correlation id is never resolved *)
(* and that began waiting ends by raising a timeout error, no earlier than  *)
(* timeout seconds and no later than timeout plus one poll interval (1 s)   *)
(* after waiting began; it is never still waiting after that.               *)
C7_TimeoutWindow ==
    \A t \in Tasks :
        LET f == task[t] IN
        (f.kind = "handshake" /\ f.cid \notin resolvedCids)
        => /\ f.pc \in {"h_poll", "h_future"}
                => now - f.start_time <= f.timeout + POLL_INTERVAL
           /\ (f.pc = "done" /\ f.value \notin {"transport", "circuit_open"})
                => /\ f.outcome = "raise" /\ f.value = "timeout"
                   /\ f.ended - f.start_time >= f.timeout
                   /\ f.ended - f.start_time <= f.timeout + POLL_INTERVAL

\* a never-resolved request that polled the durable store and timed out
C7_Witness ==
    \E t \in Tasks :
        LET f == task[t] IN
        /\ f.kind = "handshake" /\ f.pc = "done" /\ f.cid \notin resolvedCids
        /\ f.db_available
        /\ f.outcome = "raise" /\ f.value = "timeout"
        /\ f.ended - f.start_time = f.timeout

\* the handshake of frame f ended in a timeout error
TimedOut(f) == f.kind = "handshake" /\ f.pc = "done" /\ f.outcome = "raise" /\ f.value = "timeout"
\* the target's breaker entry after exactly one record_failure at the time the frame ended
OneFailureRecorded(f) ==
    f.snap.circuit =
        record_failure([a \in Agents |-> f.snap.pre], f.target, f.ended)[f.target]

(* C8 as stated: when send_request_with_handshake times out, it has         *)
(* recorded one failure on the target's breaker, the durable handshake      *)
(* record for the correlation id no longer exists, the in-process waiter is *)
(* removed, and a timeout error is raised.                                  *)
C8_TimeoutCleanup ==
    \A t \in Tasks :
        LET f == task[t] IN
        TimedOut(f) =>
            /\ OneFailureRecorded(f)
            /\ f.snap.row = NoRow
            /\ f.snap.waiter = NoTask

(* C8 amended: when send_request_with_handshake times out, it has recorded  *)
(* one failure on the target's breaker, the in-process waiter is removed    *)
(* and a timeout error is raised; the durable record for the correlation id *)
(* no longer exists if the request had created it and the store executes    *)
(* the cleanup DELETE.                                                      *)
C8_TimeoutCleanupBestEffort ==
    \A t \in Tasks :
        LET f == task[t] IN
        TimedOut(f) =>
            /\ OneFailureRecorded(f)
            /\ f.snap.waiter = NoTask
            /\ (f.db_available /\ f.snap.store) => f.snap.row = NoRow

\* a request that polled to its timeout with the store up, whose record was created and is gone
C8_Witness ==
    \E t \in Tasks :
        LET f == task[t] IN
        /\ TimedOut(f)
        /\ f.db_available /\ f.snap.store
        /\ f.ended - f.start_time = f.timeout
        /\ f.snap.row = NoRow /\ f.snap.waiter = NoTask
        /\ f.snap.circuit.failures = f.snap.pre.failures + 1


----------------------------------------------------------------------------
\* two delegations for the same incident and target, started within the dedup window of
\* each other
SameDelegation(f, g) ==
    /\ f.pc # "idle" /\ g.pc # "idle"
    /\ f.incident # NoIncident /\ f.incident = g.incident
    /\ f.target = g.target
    /\ f.started - g.started < DEDUP_WINDOW /\ g.started - f.started < DEDUP_WINDOW
\* the HANDSHAKE_REQUEST of the delegation reached the target
Delivered(f) == f.primary.kind \in {"result", "timeout"}

(* C2: for any interleaving of two delegate_to_agent calls whose requests   *)
(* yield the same incident_id and the same target within the dedup window,  *)
(* at most one of them sends a HANDSHAKE_REQUEST to the target and the      *)
(* other returns already_handled.  Stated here for calls whose ledger       *)
(* lookups were both executed by the store, with no entry for the incident  *)
(* in the ledger beforehand.                                                *)
C2_AtMostOneDelegation ==
    \A t1, t2 \in Tasks :
        LET f == deleg[t1]
            g == deleg[t2]
        IN
        (t1 # t2 /\ SameDelegation(f, g) /\ f.lookup_ok /\ g.lookup_ok /\ f.prior = {})
        => /\ ~(Delivered(f) /\ Delivered(g))
           /\ (f.pc = "done" /\ g.pc = "done")
                => (f.status = "already_handled" \/ g.status = "already_handled")

(* C3 as stated: if a delegation to target T for incident I has created its *)
(* ledger entry (status PENDING or COMPLETED) and a second delegate_to_agent*)
(* call for the same I and T starts within the 300 s window, the second     *)
(* call returns already_handled with handled_by the first call's source,    *)
(* creates no ledger entry and makes no handshake call.                     *)
C3_SequentialDedup ==
    \A t \in Tasks :
        LET g == deleg[t] IN
        (g.pc # "idle" /\ g.prior # {})
        => /\ g.pc = "done" /\ g.status = "already_handled"
           /\ g.handled_by \in g.prior
           /\ ~g.created /\ g.calls = <<>>

(* C3 amended: if a ledger entry for incident I and target T with status    *)
(* PENDING or COMPLETED was created less than 300 s before a                *)
(* delegate_to_agent call for the same I and T starts, and the ledger       *)
(* lookup of that call is executed by the store, the call returns           *)
(* already_handled with handled_by the source agent of the most recent such *)
(* entry, creates no ledger entry and makes no handshake call.              *)
C3_SequentialDedupWhenLookupSucceeds ==
    \A t \in Tasks :
        LET g == deleg[t] IN
        (g.pc # "idle" /\ g.prior # {} /\ g.lookup_ok)
        => /\ g.pc = "done" /\ g.status = "already_handled"
           /\ g.handled_by \in g.prior_latest
           /\ ~g.created /\ g.calls = <<>>

\* a second call, started while the first one's entry is PENDING, is answered already_handled
\* by the first one's source
C3_Witness ==
    LET f == deleg["t1"]
        g == deleg["t2"]
    IN
    /\ f.created /\ f.pc = "d_handshake"
    /\ SameDelegation(f, g) /\ g.lookup_ok
    /\ g.prior_latest = {f.source} /\ g.started > f.started
    /\ g.pc = "done" /\ g.status = "already_handled" /\ g.handled_by = f.source
    /\ g.calls = <<>>


----------------------------------------------------------------------------
\* acquire() calls that have returned, over all processes
Returned == proc["p1"].returned + proc["p2"].returned

(* C9: for any interleaving of acquire() calls of the processes sharing the *)
(* bucket file, the number of acquire() calls that have returned since the  *)
(* bucket was full (time 0) never exceeds capacity plus refill rate times   *)
(* the elapsed time.                                                        *)
C9_RateBound == Returned * TOKEN <= MAX_TOKENS + RATE * now

(* C10: in every state persisted to the shared bucket file by acquire(),    *)
(* 0 <= tokens <= capacity, for every sequence and interleaving of          *)
(* acquire() calls; the same holds of every state acquire() is about to     *)
(* write.                                                                   *)
C10_BucketBounds ==
    /\ stateFile.kind = "state" => (0 <= stateFile.tokens /\ stateFile.tokens <= MAX_TOKENS)
    /\ \A p \in Procs :
          proc[p].pc = "dump" => (0 <= proc[p].state.tokens /\ proc[p].state.tokens <= MAX_TOKENS)

\* the file holds a partial refill written by a call that found less than one token, after
\* an earlier call has consumed one
C10_Witness ==
    /\ stateFile.kind = "state"
    /\ 0 < stateFile.tokens /\ stateFile.tokens < TOKEN
    /\ Returned >= 1
    /\ \E p \in Procs : proc[p].pc = "release" /\ proc[p].waits

\* no other process has called acquire()
Alone(p) == \A q \in Procs \ {p} : proc[q].calls = 0

(* C11: starting from a full bucket, the first capacity acquire() calls of  *)
(* a process that uses the bucket alone never wait for a refill, and the    *)
(* (capacity+1)-th call has not returned before 1/refill_rate seconds have  *)
(* elapsed.                                                                 *)
C11_Exhaustion ==
    \A p \in Procs :
        Alone(p) =>
            /\ proc[p].calls <= RequestsPerMinute =>
                  (proc[p].pc # "refill_sleep" /\ ~proc[p].waits)
            /\ proc[p].returned > RequestsPerMinute => now * RATE >= TOKEN

\* the (capacity+1)-th call, made at time 0, has slept for the refill and returned
C11_Witness ==
    \E p \in Procs :
        /\ Alone(p)
        /\ proc[p].returned = RequestsPerMinute + 1
        /\ proc[p].pc = "idle"
        /\ stateFile.kind = "state" /\ stateFile.tokens = 0
        /\ stateFile.last_update = sleep_time(0)

----------------------------------------------------------------------------
(* C12: broadcast(source, targets, text) with N distinct targets never      *)
(* raises and returns a map with exactly N entries, one per target: a       *)
(* target to which an attempt was delivered is marked delivered, whatever   *)
(* happened to the other targets, and every other target is marked failed   *)
(* (unreachable after its attempts failed, or circuit_open when the gate    *)
(* refused it).                                                             *)
C12_BroadcastIsolation ==
    bcast.pc = "done" =>
        LET n == Len(bcast.agents) IN
        /\ bcast.outcome = "return"
        /\ DOMAIN bcast.results = {bcast.agents[i] : i \in 1..n}
        /\ Cardinality(DOMAIN bcast.results) = n
        /\ \A i \in 1..n :
              LET f == task[TaskOf(i)]
                  r == bcast.results[bcast.agents[i]] IN
              /\ f.successes >= 1 <=> r = "delivered"
              /\ (f.attempts = 0 /\ ~allow_request([a \in Agents |-> f.snap.pre], f.target, f.ended))
                    <=> r = "circuit_open"
              /\ (f.successes = 0 /\ f.attempts = 2 /\ f.failures = 2) <=> r = "unreachable"
              /\ r \in {"delivered", "circuit_open", "unreachable"}

\* a broadcast to two targets has returned: the first target failed at both attempts, the
\* second was delivered
C12_Witness ==
    /\ bcast.pc = "done" /\ bcast.outcome = "return"
    /\ Len(bcast.agents) = 2
    /\ task["t1"].outcome = "raise" /\ task["t1"].attempts = 2
    /\ bcast.results[bcast.agents[1]] = "unreachable"
    /\ bcast.results[bcast.agents[2]] = "delivered"

----------------------------------------------------------------------------
(* C13: when allow_request(target) is false at the start of send_message,   *)
(* the call returns the circuit-open outcome in that same step, having made *)
(* no transport attempt, and the step leaves the circuit breaker's          *)
(* dictionary, the resolver cache, the client cache and the clock unchanged. *)
C13_CircuitOpenFastFail ==
    [][\A t \in Tasks :
          (/\ task[t].pc = "idle"
           /\ task'[t].pc # "idle"
           /\ task'[t].kind = "send"
           /\ ~allow_request(circuits, task'[t].target, now))
          => /\ task'[t].pc = "done"
             /\ task'[t].outcome = "return"
             /\ task'[t].value = "circuit_open"
             /\ task'[t].attempts = 0
             /\ task'[t].ended = now
             /\ circuits' = circuits
             /\ consulCache' = consulCache
             /\ a2aClients' = a2aClients
             /\ now' = now]_vars

\* a send_message refused while the destination is HALF_OPEN with its probe taken, after
\* the reset timeout has passed
C13_Witness ==
    /\ task["t1"].pc = "done" /\ task["t1"].value = "circuit_open"
    /\ task["t1"].snap.pre.state = HALF_OPEN
    /\ task["t1"].snap.circuit = task["t1"].snap.pre
    /\ task["t1"].ended > CIRCUIT_RESET_TIMEOUT

(* C14: a send_request_with_handshake whose resolution is written by        *)
(* another process, so that no future is completed in the requester's       *)
(* process, returns the resolved result (as it comes back from the store),  *)
(* provided the durable store is available throughout and the COMPLETED     *)
(* write happens before the timeout.                                        *)
C14_DurablePathSufficient ==
    \A t \in Tasks :
        LET f == task[t] IN
        (/\ f.kind = "handshake" /\ f.pc = "done"
         /\ f.db_available /\ f.future = "pending"
         /\ dbUp /\ nFlips = 0
         /\ f.written # {})
        => (/\ f.outcome = "return"
            /\ f.value \in {json_loads(json_dumps(r)) : r \in f.written})

----------------------------------------------------------------------------
(* C15: whatever the underlying handshake gives (a result, the circuit-open *)
(* rejection, a transport failure, the handshake timeout, a failed          *)
(* failover) and whether or not the ledger store answers, delegate_to_agent *)
(* ends by returning a result whose status is one of already_handled,       *)
(* delegated, timeout, failover, failed; it never propagates an exception.  *)
C15_DelegationNeverRaises ==
    \A t \in Tasks :
        deleg[t].pc = "done" =>
            /\ ~deleg[t].raised
            /\ deleg[t].status \in {"already_handled", "delegated", "timeout", "failover", "failed"}

\* a delegation whose handshake failed on the connection and whose failover failed as
\* well has returned "failed" while the ledger store was unreachable
C15_Witness ==
    \E t \in Tasks :
        /\ deleg[t].pc = "done" /\ deleg[t].status = "failed"
        /\ Len(deleg[t].calls) = 2
        /\ ~deleg[t].created
        /\ ~dbUp

TerminalStatuses == {"COMPLETED", "TIMEOUT", "FAILED", "FAILOVER_SUCCESS"}

(* C16: every ledger entry is created PENDING and, over any sequence of     *)
(* delegations, several under one inbound correlation id included, is       *)
(* updated at most once, to a terminal status; an entry that has been        *)
(* updated is never modified again.                                         *)
C16_EntryLifecycle ==
    \A i \in DOMAIN ledger :
        /\ ledger[i].updates <= 1
        /\ ledger[i].updates = 0 <=> ledger[i].status = "PENDING"
        /\ ledger[i].updates >= 1 => ledger[i].status \in TerminalStatuses

----------------------------------------------------------------------------
\* the backups of the agents of S
Backups(S) == {failover_agents[a] : a \in S \cap DOMAIN failover_agents}

\* the agents reached from S by following failover targets at most n times
RECURSIVE FailoverReach(_, _)
FailoverReach(S, n) == IF n = 0 THEN S ELSE FailoverReach(S \cup Backups(S), n - 1)

\* the agents that are, directly or transitively, backups of a
BackupsOf(a) == FailoverReach(Backups({a}), Cardinality(DOMAIN failover_agents))

\* a is, directly or transitively, its own backup
OwnBackup(a) == a \in BackupsOf(a)

(* C17: following failover targets in the failover table of                 *)
(* delegate_to_agent, from the target of any delegation, never comes back   *)
(* to an agent already visited: no agent on the way is, directly or         *)
(* transitively, its own backup.                                            *)
C17_FailoverAcyclic ==
    \A t \in Tasks :
        \A a \in ({deleg[t].target} \cup BackupsOf(deleg[t].target)) \cap DOMAIN failover_agents :
            ~OwnBackup(a)

----------------------------------------------------------------------------
\* the positions of the failover calls among the handshake calls of delegation f
FailoverCalls(f) == {i \in 1..Len(f.calls) : f.calls[i].is_failover}

(* C18: a delegation makes at most one failover handshake call, after its   *)
(* call to the primary target, and only when the primary handshake failed   *)
(* with a transport error of the connection class and a backup is           *)
(* configured for the target; a handshake timeout or a circuit-open         *)
(* rejection never triggers failover; the failover call goes to the         *)
(* configured backup with is_failover true and original_target the primary  *)
(* target.                                                                  *)
C18_FailoverTrigger ==
    \A t \in Tasks :
        LET f == deleg[t] IN
        /\ Cardinality(FailoverCalls(f)) <= 1
        /\ Len(f.calls) <= 2
        /\ \A i \in 1..Len(f.calls) :
              IF i = 1
              THEN f.calls[i] = DelegationRequest(f.target)
              ELSE /\ f.primary.kind = "transport"
                   /\ "connection" \in f.primary.markers
                   /\ f.target \in DOMAIN failover_agents
                   /\ f.calls[i].target_agent = failover_agents[f.target]
                   /\ f.calls[i].is_failover
                   /\ f.calls[i].original_target = f.target
        /\ f.primary.kind \in {"timeout", "circuit_open", "result"} => Len(f.calls) <= 1

\* a delegation whose handshake failed on the connection has sent the failover call and
\* returned the backup's answer
C18_Witness ==
    \E t \in Tasks :
        LET f == deleg[t] IN
        /\ f.pc = "done" /\ f.status = "failover"
        /\ f.primary.kind = "transport"
        /\ FailoverCalls(f) = {2}
        /\ f.calls[2].original_target = f.target

----------------------------------------------------------------------------
(* C19: acquire() returns the number of seconds the caller waited for a     *)
(* token: 0 when a token was available immediately, and a positive value    *)
(* when the caller had to sleep before obtaining one.                       *)
C19_ReturnsWaitedSeconds ==
    \A p \in Procs :
        (proc[p].pc = "idle" /\ proc[p].returned >= 1) =>
            /\ proc[p].slept = 0 => proc[p].ret = 0
            /\ proc[p].slept > 0 => proc[p].ret > 0

----------------------------------------------------------------------------
(* C20: record_success(destination), from any state, sets the destination   *)
(* to CLOSED with failure count 0 and probe count 0, so that the next       *)
(* allow_request returns true; the destination then stays CLOSED and        *)
(* allowed while fewer than threshold (3) failures have been recorded since *)
(* that success, and is no longer CLOSED once three have been.              *)
C20_ResetOnSuccess ==
    \A a \in Agents :
        /\ (lastOp.op = "record_success" /\ lastOp.agent = a) =>
              /\ circuits[a] = Circuit(CLOSED, 0, 0, 0)
              /\ allow_request(circuits, a, now)
        /\ (circuits[a] # Absent /\ obs[a].consec < CIRCUIT_FAILURE_THRESHOLD) =>
              /\ circuits[a].state = CLOSED
              /\ circuits[a].failures = obs[a].consec
              /\ allow_request(circuits, a, now)
        /\ obs[a].consec >= CIRCUIT_FAILURE_THRESHOLD => circuits[a].state \in {OPEN, HALF_OPEN}

\* a record_success on a HALF_OPEN destination whose probe had been granted
C20_Witness ==
    \E a \in Agents :
        /\ lastOp.op = "record_success" /\ lastOp.agent = a
        /\ lastOp.pre.state = HALF_OPEN /\ lastOp.pre.half_open_attempts = 1
        /\ lastOp.pre.failures >= CIRCUIT_FAILURE_THRESHOLD
        /\ circuits[a].state = CLOSED

----------------------------------------------------------------------------
(* C21: get_service_url(name) returns the cached address, without querying  *)
(* the registry, when one is cached; on a cache miss it queries the         *)
(* registry once and returns the registry's first entry, or, when the       *)
(* registry gives none (no entry, an error status, an exception), the       *)
(* static table's entry; every address it returns is in the cache when it   *)
(* returns; it returns None only when the registry gave nothing and the     *)
(* static table has no entry for the name.                                  *)
C21_ResolutionOrder ==
    \A l \in Lookups :
        LET f == lookups[l]
            first == IF f.reply.status = "200" /\ Len(f.reply.services) > 0
                     THEN Head(f.reply.services) ELSE NoUrl IN
        f.pc = "done" =>
            /\ f.hit => (f.ret = f.cached /\ f.queries = 0)
            /\ ~f.hit => /\ f.queries = 1
                         /\ first # NoUrl => f.ret = first
                         /\ (first = NoUrl /\ f.name \in static_mesh_map) => f.ret = "static"
            /\ f.ret # NoUrl => f.stored = f.ret
            /\ f.ret = NoUrl <=> (~f.hit /\ first = NoUrl /\ f.name \notin static_mesh_map)

\* a lookup that missed the cache has returned the first of two registry entries, and a
\* lookup of the same name made after it has returned that address from the cache
C21_Witness ==
    \E l, m \in Lookups :
        /\ lookups[l].pc = "done" /\ ~lookups[l].hit
        /\ Len(lookups[l].reply.services) = 2
        /\ lookups[l].ret = lookups[l].reply.services[1]
        /\ lookups[m].pc = "done" /\ lookups[m].hit /\ lookups[m].name = lookups[l].name
        /\ lookups[m].ret = lookups[l].ret /\ lookups[m].queries = 0

----------------------------------------------------------------------------
\* the process is between a successful _acquire_lock and its _release_lock
HoldsLock(p) == proc[p].pc \in {"read", "refill", "dump", "release"}

(* C22: for any interleaving of processes calling acquire(), processes that *)
(* remove a lock file older than 5 s and processes delayed before their     *)
(* release included, at most one process at a time is between a successful  *)
(* _acquire_lock and its _release_lock.                                     *)
C22_LockMutualExclusion == Cardinality({p \in Procs : HoldsLock(p)}) <= 1

----------------------------------------------------------------------------
\* the lock file the process created is there: it has not been released
OwnsLock(p) == lockFile.exists /\ lockFile.owner = p

----------------------------------------------------------------------------
\* the step opens the circuit of destination a
Opens(a) == circuits[a].state # OPEN /\ circuits'[a].state = OPEN

(* C25: a destination's circuit becomes OPEN only by a record_failure that  *)
(* either brings the number of consecutive failures to at least threshold   *)
(* (3) or is made while the destination is HALF_OPEN; allow_request,        *)
(* get_state and record_success never set a destination to OPEN; and a      *)
(* destination never seen is CLOSED.                                        *)
C25_OpeningCondition ==
    /\ [](\A a \in Agents : circuits[a] = Absent => get_state(circuits, a, now) = CLOSED)
    /\ [][\A a \in Agents :
            Opens(a) =>
                /\ lastOp'.op = "record_failure" /\ lastOp'.agent = a
                /\ \/ obs'[a].consec >= CIRCUIT_FAILURE_THRESHOLD
                   \/ circuits[a].state = HALF_OPEN]_vars

\* the third consecutive record_failure has opened a CLOSED circuit
C25_Witness ==
    \E a \in Agents :
        /\ lastOp.op = "record_failure" /\ lastOp.agent = a
        /\ lastOp.pre.state = CLOSED
        /\ circuits[a].state = OPEN
        /\ obs[a].consec = CIRCUIT_FAILURE_THRESHOLD

----------------------------------------------------------------------------
(* C26: after each failed delivery attempt of send_message a failure is     *)
(* recorded on the target's breaker and the resolver cache entry of the     *)
(* target and the cached client of the source/target pair are removed, so   *)
(* that the next attempt on the pair, in this or another send, begins to    *)
(* transmit only after the target's address has been resolved again.        *)
C26_FailureInvalidates ==
    \A t \in Tasks :
        LET f == task[t] IN
        f.kind = "send" =>
            /\ f.failures = Len(f.handled) + (IF f.pc = "s_close" THEN 1 ELSE 0)
            /\ ~f.uninvalidated
            /\ ~f.stale

----------------------------------------------------------------------------
(* C27: in send_message, after failed attempt number k (from 0) with        *)
(* attempts remaining, the caller sleeps min(32, 2^k) seconds before the    *)
(* next attempt; the attempts of one send are strictly sequential; no sleep *)
(* follows the final failed attempt, whose error is raised.                 *)
C27_BackoffSchedule ==
    \A t \in Tasks :
        LET f == task[t] IN
        f.kind = "send" =>
            /\ \A i \in 1..Len(f.sleeps) : f.sleeps[i] = Min(32, 2 ^ (i - 1))
            /\ Len(f.begun) <= Len(f.handled) + 1
            /\ \A i \in 1..Len(f.handled) :
                  IF i <= f.retries
                  THEN /\ Len(f.sleeps) >= i
                       /\ Len(f.begun) > i => f.begun[i + 1] >= f.handled[i] + f.sleeps[i]
                  ELSE /\ f.pc = "done" /\ f.outcome = "raise" /\ f.value = "transport"
                       /\ Len(f.sleeps) = f.retries


----------------------------------------------------------------------------
(* C28 *)

\* the step in which frame t's send_request_with_handshake call is made
HsCalled(t) == task[t].pc = "idle" /\ task'[t].kind = "handshake"

\* C28: handshake gate rejection.  Whenever send_request_with_handshake is called and the
\* target's circuit does not allow the request (OPEN with the reset timeout not elapsed,
\* or HALF_OPEN with its probe taken), the call raises in that same step, at the instant
\* of the call, and the step has created or changed no row of the handshakes table,
\* registered no waiter, scheduled no update, made no transport attempt and touched
\* neither the clients nor the resolver cache.
C28_GateRejection ==
    [][\A t \in Tasks :
          (HsCalled(t) /\ ~allow_request(circuits, task'[t].target, now)) =>
              /\ task'[t].pc = "done"
              /\ task'[t].outcome = "raise"
              /\ task'[t].value = "circuit_open"
              /\ task'[t].ended = now /\ now' = now
              /\ task'[t].attempts = 0
              /\ task'[t].future = NoValue
              /\ UNCHANGED <<handshakes, pending, updates, consulCache, a2aClients>>]_vars

\* a call was refused at a HALF_OPEN circuit whose probe was taken
C28_Witness ==
    LET f == task["t1"] IN
    /\ f.kind = "handshake" /\ f.pc = "done" /\ f.value = "circuit_open"
    /\ f.snap.pre.state = HALF_OPEN
    /\ f.attempts = 0

----------------------------------------------------------------------------
(* C29 *)

\* the step in which the first transmission of frame t's handshake request begins
FirstTx(t) ==
    /\ task[t].kind = "handshake"
    /\ task[t].attempts = 0
    /\ task'[t].attempts = 1

\* the step executes the UPDATE of a resolution for the correlation id of frame t, whose
\* request has been transmitted
UpdateFor(t) ==
    /\ Transmitted(task[t])
    /\ \E u \in updates : u.cid = task[t].cid /\ updates' = updates \ {u}

\* no other call of the behaviour has used the correlation id of frame t
SoleUser(t) == \A t2 \in Tasks \ {t} : task[t2].cid # task[t].cid

----------------------------------------------------------------------------
(* C30 *)

\* the step is a resolve_handshake call for a correlation id whose requester has timed out
\* and deleted the record
LateResolutions == {u \in updates' \ updates : u.late}

\* the step executes the UPDATE of such a call
LateUpdates == {u \in updates \ updates' : u.late}

\* C30: late resolution is ignored.  A resolve_handshake call for a correlation id whose
\* requester has timed out and left neither row nor waiter changes no row, registers no
\* waiter and resolves the future of no request that waits on its future; and the UPDATE
\* it scheduled creates no row for the correlation id and completes the row of no request
\* that is waiting on it.
C30_LateResolutionIgnored ==
    [][/\ \A u \in LateResolutions :
             /\ handshakes' = handshakes
             /\ pending[u.cid] = NoTask => pending'[u.cid] = NoTask
             /\ \A t \in Tasks : ~task[t].db_available => task'[t].future = task[t].future
       /\ \A u \in LateUpdates :
             /\ handshakes[u.cid] = NoRow => handshakes'[u.cid] = NoRow
             /\ \A t \in Tasks : task'[t].written = task[t].written]_vars


----------------------------------------------------------------------------
(* C24 *)

\* process p is inside an acquire() call
InAcquire(p) == proc[p].pc # "idle"

\* C24 as stated: rate limiter progress.  With every process scheduled fairly and time
\* passing, every acquire() call eventually returns, whatever lock file a dead process
\* has left and however often the other processes call acquire().
C24_Progress == \A p \in Procs : InAcquire(p) ~> ~InAcquire(p)

\* from some moment on process q makes no acquire() call
StopsCalling(q) == <>[](proc[q].turn = 0) \/ <>[](proc[q].turn = 1)

\* C24 amended: every acquire() call of a process eventually returns if the other
\* processes make only finitely many calls; and the lock file left by a dead process is
\* removed once a process is inside acquire().
C24_ProgressWhenOthersStop ==
    /\ \A p \in Procs :
          (\A q \in Procs \ {p} : StopsCalling(q)) => (InAcquire(p) ~> ~InAcquire(p))
    /\ (lockFile.owner = "dead" /\ \E p \in Procs : InAcquire(p)) ~> lockFile.owner # "dead"

\* a call that found the lock file of a dead process and an empty bucket has slept for
\* its token and returned, after the other process had taken a token more than once
C24_Witness ==
    \E p \in Procs :
        /\ proc[p].pc = "idle" /\ proc[p].returned >= 1 /\ proc[p].slept > 0
        /\ lockFile.owner # "dead"
        /\ \E q \in Procs \ {p} : proc[q].returned = MaxCalls


----------------------------------------------------------------------------
\* an UPDATE task executes against a row that is COMPLETED already, with a different result
SecondWrite(u) ==
    /\ u \in updates
    /\ updates' = updates \ {u}
    /\ DbOk
    /\ handshakes[u.cid] # NoRow
    /\ handshakes[u.cid].status = "COMPLETED"
    /\ handshakes[u.cid].result # json_dumps(u.result)

\* the requester t reads a COMPLETED row in its polling loop
ReadsCompleted(t) ==
    /\ task[t].pc = "h_poll"
    /\ task'[t].pc = "done"
    /\ ~PollExpired(task[t])
    /\ DbOk
    /\ handshakes[task[t].cid].status = "COMPLETED"

----------------------------------------------------------------------------
\* delegation t's handshake with its target ends in this step by the handshake timeout
HandshakeTimesOut(t) ==
    /\ deleg[t].pc = "d_handshake"
    /\ deleg'[t].pc # "d_handshake"
    /\ deleg'[t].primary.kind = "timeout"

(* C32: when the handshake to the target was sent but no resolution        *)
(* arrived within the timeout, delegate_to_agent updates its ledger entry  *)
(* to status TIMEOUT (not FAILED) and returns a result with status         *)
(* timeout.                                                                 *)
C32_TimeoutRecorded ==
    [][\A t \in Tasks :
          HandshakeTimesOut(t) =>
              /\ deleg'[t].pc = "done"
              /\ deleg'[t].status = "timeout"
              /\ DbOk => \A i \in DOMAIN ledger' :
                            ledger'[i].correlation_id = deleg[t].cid
                               => ledger'[i].status = "TIMEOUT"]_vars


----------------------------------------------------------------------------
\* delegation t found, when it started, an entry for its (incident, target) that is not
\* live: of a status other than PENDING and COMPLETED, or as old as the window
DeadEntrySeen(t) ==
    LET f == deleg[t] IN
    \E i \in DOMAIN ledger :
        /\ ledger[i].incident_id = f.incident
        /\ ledger[i].target_agent = normalize_name(f.target)
        /\ ledger[i].created_at <= f.started
        /\ \/ ledger[i].status \in {"TIMEOUT", "FAILED", "FAILOVER_SUCCESS"}
           \/ f.started - ledger[i].created_at >= DEDUP_WINDOW

(* C33: a ledger entry for (incident, target) suppresses a new delegation  *)
(* only if its status is PENDING or COMPLETED and it was created less than *)
(* 300 s ago: a delegation that ended as already_handled had such an entry *)
(* in the ledger when it looked, and names that entry's source; an entry   *)
(* of status TIMEOUT, FAILED or FAILOVER_SUCCESS, or older than the        *)
(* window, never causes already_handled.                                   *)
C33_DedupCountsLiveEntries ==
    \A t \in Tasks :
        LET f == deleg[t] IN
        f.status = "already_handled" =>
            /\ f.prior # {}
            /\ f.handled_by \in f.prior

\* a delegation went on to create its own entry although the ledger held an entry for its
\* incident and target that had ended FAILED or FAILOVER_SUCCESS, or was 300 s old
C33_Witness ==
    \E t \in Tasks :
        LET f == deleg[t] IN
        /\ f.pc = "d_create"
        /\ f.lookup_ok
        /\ f.prior = {}
        /\ DeadEntrySeen(t)
        /\ \A u \in Tasks \ {t} : deleg[u].pc \in {"idle", "done"}


----------------------------------------------------------------------------
\* delegation t has reached the send_request_with_handshake call for its target, or is
\* about to (only create_delegation_log, which raises nothing, lies between)
ProceedsToHandshake(t) ==
    LET f == deleg[t] IN
    \/ f.pc = "d_create"
    \/ Len(f.calls) >= 1 /\ f.calls[1] = DelegationRequest(f.target)

(* C34: dedup fails open.  A delegation whose request text yields no       *)
(* incident id, or whose ledger lookup fails or finds the store            *)
(* unavailable, is never short-circuited as already_handled; it proceeds   *)
(* to the handshake with the target.                                       *)
C34_DedupFailsOpen ==
    \A t \in Tasks :
        LET f == deleg[t] IN
        (f.pc # "idle" /\ ~f.lookup_ok) =>
            /\ f.status # "already_handled"
            /\ ProceedsToHandshake(t)

\* with a live entry for the same target in the ledger, a delegation whose lookup found
\* the store unreachable and one whose request held no incident id both called the target
C34_Witness ==
    /\ \E t \in Tasks :
          LET f == deleg[t] IN
          /\ f.pc = "d_handshake" /\ ~f.lookup_ok
          /\ f.incident # NoIncident /\ f.prior # {}
    /\ \E t \in Tasks :
          LET f == deleg[t] IN
          /\ f.pc \in {"d_handshake", "done"} /\ ~f.lookup_ok
          /\ f.incident = NoIncident
          /\ Len(f.calls) >= 1
          /\ \E i \in DOMAIN ledger :
                 /\ ledger[i].target_agent = f.target
                 /\ ledger[i].status \in {"PENDING", "COMPLETED"}
                 /\ ledger[i].created_at <= f.started


----------------------------------------------------------------------------
\* the attempts of run r made so far
Attempts(r) == Len(runs[r].used)

(* C35: RateLimitRetryRunner.run_async makes at most max_retries+1         *)
(* attempts; the first attempt uses the caller's session id and every      *)
(* retry uses a session id that differs from the caller's and from those   *)
(* of all earlier attempts, so no session receives the new message more    *)
(* than once; an error that is not a rate-limit error is re-raised at once *)
(* without another attempt.                                                *)
C35_RetrySessions ==
    \A r \in Runs :
        LET f == runs[r] IN
        /\ Attempts(r) <= f.max_retries + 1
        /\ Attempts(r) >= 1 => f.used[1] = f.session_id
        /\ \A i, j \in 1..Attempts(r) : i < j => f.used[i] # f.used[j]
        /\ \A s \in SessionIds : sessions[s].received[r] <= 1
        /\ \A i \in 1..Attempts(r) :
              (f.errors[i] # NoError /\ ~is_rate_limit_error(f.errors[i])) =>
                  /\ i = Attempts(r)
                  /\ f.pc = "done" /\ f.outcome = "raise"

\* a call with max_retries = 2 made its three attempts, each delivering the message to a
\* session of its own, and raised the last rate-limit error; another call raised an
\* error that is no rate-limit error after one retry
C35_Witness ==
    /\ \E r \in Runs :
          LET f == runs[r] IN
          /\ f.pc = "done" /\ f.outcome = "raise" /\ f.max_retries = 2
          /\ Attempts(r) = 3
          /\ \A i \in 1..3 : sessions[f.used[i]].received[r] = 1
          /\ is_rate_limit_error(f.errors[3])
    /\ \E r \in Runs :
          LET f == runs[r] IN
          /\ f.pc = "done" /\ f.outcome = "raise" /\ f.max_retries = 2
          /\ Attempts(r) = 2
          /\ sessions[f.used[2]].exists
          /\ ~is_rate_limit_error(f.errors[2])


----------------------------------------------------------------------------
\* the values request t can return when it returns its own target's answer: the answer,
\* or the answer as it comes back from the JSON column
AnswersTo(t) == {AnswerOf[t], json_loads(json_dumps(AnswerOf[t]))}

(* C36: a result resolved in answer to one handshake is never returned to  *)
(* a different send_request_with_handshake call; in particular when an     *)
(* agent makes requests to two targets under the same inbound correlation  *)
(* id, its request to one target returns only a result produced by that    *)
(* target.                                                                  *)
C36_ResultIsolation ==
    \A t \in Tasks :
        LET f == task[t] IN
        (f.kind = "handshake" /\ f.pc = "done" /\ f.outcome = "return") =>
            f.value \in AnswersTo(t)


----------------------------------------------------------------------------
\* request t, admitted by the gate of send_request_with_handshake, goes on from the
\* creation of its record while its target's circuit is HALF_OPEN
HalfOpenAdmitted(t) ==
    LET f == task[t] IN
    /\ f.kind = "handshake"
    /\ f.pc = "h_create"
    /\ task'[t].pc # "h_create"
    /\ circuits[f.target] # Absent
    /\ circuits[f.target].state = HALF_OPEN

(* C37: when a target's circuit is HALF_OPEN and send_request_with_handshake *)
(* is admitted by the gate, its HANDSHAKE_REQUEST is actually transmitted   *)
(* to the target (so that a reachable target that resolves the handshake   *)
(* in time brings the circuit back to CLOSED): the admitted request goes   *)
(* on to its transport attempt.                                            *)
C37_HalfOpenProbeTransmitted ==
    [][\A t \in Tasks : HalfOpenAdmitted(t) => task'[t].pc = "s_attempt"]_vars


----------------------------------------------------------------------------
(* C38: after send_request_with_handshake has returned or raised for any   *)
(* reason (completion, timeout, transport failure of the send, circuit     *)
(* rejection), the durable store holds no record and the in-process waiter *)
(* map holds no entry for that correlation id.  Stated for a request that  *)
(* is the only user of its correlation id, as the request leaves them.     *)
C38_NothingOutlivesRequest ==
    \A t \in Tasks :
        LET f == task[t] IN
        (f.kind = "handshake" /\ f.pc = "done" /\ SoleUser(t)) =>
            /\ f.snap.row = NoRow
            /\ f.snap.waiter = NoTask


----------------------------------------------------------------------------
\* send_message call t begins a transport attempt in this step
BeginsAttempt(t) ==
    /\ task[t].kind = "send"
    /\ task'[t].attempts = task[t].attempts + 1

\* the circuit of destination a is OPEN: opened, and its reset timeout has not elapsed
CircuitOpen(a) ==
    /\ circuits[a] # Absent
    /\ get_state(circuits, a, now) = OPEN

(* C39: send_message never makes a transport attempt to a destination at a *)
(* moment when that destination's circuit is OPEN, including the later     *)
(* attempts of its own retry loop after earlier attempts of the same send  *)
(* have opened the circuit.                                                *)
C39_NoAttemptOnOpenCircuit ==
    [][\A t \in Tasks : BeginsAttempt(t) => ~CircuitOpen(task[t].target)]_vars

(* C39, as the code has it: the gate is tested once, when the call is      *)
(* made.  A call rejected by it makes no transport attempt; the passes of  *)
(* the retry loop are not gated, and an attempt made while the circuit is  *)
(* OPEN belongs to a call that was admitted no later than the failure that *)
(* opened the circuit.                                                     *)
C39_GateAtCallOnly ==
    [][\A t \in Tasks :
          /\ (BeginsAttempt(t) /\ CircuitOpen(task[t].target)) =>
                 circuits[task[t].target].last_failure >= task'[t].begun[1]
          /\ task'[t].value = "circuit_open" => task'[t].attempts = 0]_vars

\* a send is making its fourth attempt on the circuit its own three failures have opened
C39_Witness ==
    \E t \in Tasks :
        LET f == task[t] IN
        /\ f.kind = "send" /\ f.pc = "s_send"
        /\ f.attempts = 4 /\ f.failures = 3
        /\ CircuitOpen(f.target)
        /\ circuits[f.target].last_failure >= f.begun[1]
        /\ \A u \in Tasks \ {t} : task[u].pc = "idle"


----------------------------------------------------------------------------
\* the requester t reads, before its timeout, a row set to COMPLETED with an empty result
ReadsEmptyResult(t) ==
    /\ ReadsCompleted(t)
    /\ json_loads(handshakes[task[t].cid].result) = "empty"

(* C40: a handshake whose durable record was set to COMPLETED with an      *)
(* empty result payload before the timeout makes                           *)
(* send_request_with_handshake return that empty result and record a       *)
(* success, not raise a timeout and record a failure.                      *)
C40_EmptyResultCompletes ==
    [][\A t \in Tasks :
          ReadsEmptyResult(t) =>
              /\ task'[t].outcome = "return"
              /\ task'[t].value = "empty"
              /\ task'[t].successes = task[t].successes + 1
              /\ task'[t].failures = task[t].failures]_vars

====
